---- MODULE Spec2Model ----
(***************************************************************************)
(* The binary emission engine of src/src/wasm-gen.c: the growable output   *)
(* buffer, the primitive encoders, the header layout computed at           *)
(* before_module, the event handlers and the footer writer.                *)
(*                                                                         *)
(* Buffer offsets are the C code's 0-based offsets; the byte at offset o   *)
(* is mem[o + 1].  Multi-byte values are little-endian (the host order of  *)
(* the builds the code targets, see the TODO at wasm-gen.c:140).           *)
(***************************************************************************)
EXTENDS Integers, Sequences, FiniteSets, TLC

VARIABLES
  ctx,      \* the Context (wasm-gen.c:41-48) with its OutputBuffer
  phase,    \* the driver's position in the event protocol
  nextFn,   \* index of the function the driver opens next / has open
  stack,    \* the driver's open regions, innermost last
  exported, \* functions whose export event has been delivered
  trace     \* history: the events delivered so far

vars == <<ctx, phase, nextFn, stack, exported, trace>>

(***************************************************************************)
(* Bounds of the model.                                                    *)
(***************************************************************************)
MaxFuncs == 2       \* declared functions per module
MaxSegs == 2        \* data segments per module
MaxBody == 3        \* expression events (leaves and region opens) per module
WideRun == 255      \* length of the long run of no-ops
MaxInitCap == 2     \* SpecBuf: initial capacities 1..MaxInitCap
MaxBufOps == 3      \* SpecBuf: buffer operations per run
Reuses == 1         \* SpecReuse: module cycles after the first on one engine
MaxDeepBody == 4    \* SpecProtocol: expression events per module
LebSmall == 300     \* SpecLeb: every value 0..LebSmall is encoded

(***************************************************************************)
(* Arithmetic helpers.                                                     *)
(***************************************************************************)
Max(a, b) == IF a >= b THEN a ELSE b
Min(a, b) == IF a <= b THEN a ELSE b

RECURSIVE Pow2(_)
Pow2(n) == IF n = 0 THEN 1 ELSE 2 * Pow2(n - 1)

\* Number of significant bits of x (0 for x = 0).
RECURSIVE BitLen(_)
BitLen(x) == IF x = 0 THEN 0 ELSE 1 + BitLen(x \div 2)

\* The little-endian bytes of the low 8*n bits of v (memcpy of &value).
RECURSIVE LittleEndian(_, _)
LittleEndian(v, n) ==
  IF n = 0 THEN <<>> ELSE <<v % 256>> \o LittleEndian(v \div 256, n - 1)

\* The unsigned value of little-endian bytes.
RECURSIVE FromLittleEndian(_)
FromLittleEndian(bs) ==
  IF bs = <<>> THEN 0 ELSE bs[1] + 256 * FromLittleEndian(Tail(bs))

(***************************************************************************)
(* OutputBuffer (wasm-gen.c:35-39).  mem holds the bytes of the storage    *)
(* that have been written: writes start at or below size, so they form a   *)
(* prefix.  fault records a failed assert: the process has aborted and     *)
(* nothing more is written.  overrun records that an OUT_AT_TYPE call has  *)
(* stored a byte at or past size.                                          *)
(***************************************************************************)
INITIAL_OUTPUT_BUFFER_CAPACITY == 65536

\* OutputBuffer buf = {} in wasm_gen_file.
ZeroBuffer ==
  [mem |-> <<>>, size |-> 0, capacity |-> 0, fault |-> FALSE, overrun |-> FALSE]

\* init_output_buffer without buf->size = 0.
init_output_buffer_KeepSize(buf, initial_capacity) ==
  [buf EXCEPT !.capacity = initial_capacity]

\* free; malloc(initial_capacity); size = 0.
init_output_buffer(buf, initial_capacity) ==
  [mem |-> <<>>, size |-> 0, capacity |-> initial_capacity, fault |-> buf.fault,
   overrun |-> buf.overrun]

\* The doubling without its while loop.
DoubleUntil_Once(new_capacity, ensure_capacity) == new_capacity

\* new_capacity = capacity * 2; while (new_capacity < ensure) new_capacity *= 2
RECURSIVE DoubleUntil(_, _)
DoubleUntil(new_capacity, ensure_capacity) ==
  IF new_capacity < ensure_capacity
    THEN DoubleUntil(new_capacity * 2, ensure_capacity)
    ELSE new_capacity

\* The storage grown to just what is asked for.
ensure_output_buffer_capacity_Exact(buf, ensure_capacity) ==
  IF ensure_capacity > buf.capacity
    THEN [buf EXCEPT !.capacity = ensure_capacity]
    ELSE buf

\* realloc keeps the content of the old storage.
ensure_output_buffer_capacity(buf, ensure_capacity) ==
  IF ensure_capacity > buf.capacity
    THEN [buf EXCEPT !.capacity = DoubleUntil(buf.capacity * 2, ensure_capacity)]
    ELSE buf

\* memcpy(start + offset, src, size) on the written prefix mem.
MemCopy(mem, offset, src) ==
  SubSeq(mem, 1, offset) \o src \o SubSeq(mem, offset + Len(src) + 1, Len(mem))

\* out_data: the buffer after the call and the value returned.
out_data(buf, offset, src) ==
  IF buf.fault \/ offset > buf.size
    THEN [buf |-> [buf EXCEPT !.fault = TRUE], ret |-> buf.size]
    ELSE LET grown == ensure_output_buffer_capacity(buf, offset + Len(src))
         IN [buf |-> [grown EXCEPT !.mem = MemCopy(grown.mem, offset, src)],
             ret |-> offset + Len(src)]

\* OUT_TYPE: buf->size = out_data(buf, buf->size, &value, sizeof(value)).
OutAppend(buf, src) ==
  LET r == out_data(buf, buf.size, src) IN [r.buf EXCEPT !.size = r.ret]

\* OUT_AT_TYPE written as OUT_TYPE is: the size follows the patch.
OutAt_SetsSize(buf, offset, src) ==
  LET r == out_data(buf, offset, src) IN [r.buf EXCEPT !.size = r.ret]

\* OUT_AT_TYPE: out_data(buf, offset, &value, sizeof(value)); size is kept.
OutAt(buf, offset, src) ==
  [out_data(buf, offset, src).buf EXCEPT
     !.overrun = @ \/ offset + Len(src) > buf.size]

out_u8(buf, value) == OutAppend(buf, LittleEndian(value, 1))
out_u16(buf, value) == OutAppend(buf, LittleEndian(value, 2))
out_u32(buf, value) == OutAppend(buf, LittleEndian(value, 4))
\* A 64-bit value is carried as its two 32-bit halves [lo, hi].
out_u64(buf, value) ==
  OutAppend(buf, LittleEndian(value.lo, 4) \o LittleEndian(value.hi, 4))
\* A float or double is carried as its IEEE bit pattern.
out_f32(buf, bits) == OutAppend(buf, LittleEndian(bits, 4))
out_f64(buf, bits) ==
  OutAppend(buf, LittleEndian(bits.lo, 4) \o LittleEndian(bits.hi, 4))

out_u8_at(buf, offset, value) == OutAt(buf, offset, LittleEndian(value, 1))
out_u32_at(buf, offset, value) == OutAt(buf, offset, LittleEndian(value, 4))

out_opcode(buf, opcode) == out_u8(buf, opcode)

(***************************************************************************)
(* out_leb128 (wasm-gen.c:170-182).  A uint32_t value is carried as its    *)
(* two 16-bit halves, value = hi * 65536 + lo, so that the whole range     *)
(* [0, 2^32) is covered.  The do-while loop: data, the bytes stored so far *)
(* (i = Len(data)); ok, whether assert(i < 5) has held.                    *)
(***************************************************************************)
\* The conversion of an int argument to uint32_t.
ToU32(n) == [hi |-> (n \div 65536) % 65536, lo |-> n % 65536]

\* The test of the loop looking at the low half only.
U32IsZero_LowOnly(value) == value.lo = 0

U32IsZero(value) == value.hi = 0 /\ value.lo = 0

\* value & 0x7f
U32Low7(value) == value.lo % 128

\* The shift losing the bits that cross the halves.
U32Shr7_NoCarry(value) == [hi |-> value.hi \div 128, lo |-> value.lo \div 128]

\* value >> 7
U32Shr7(value) ==
  [hi |-> value.hi \div 128, lo |-> (value.lo \div 128) + (value.hi % 128) * 512]

RECURSIVE LebLoop(_, _, _)
LebLoop(value, data, ok) ==
  LET i == Len(data)
      rest == U32Shr7(value)
      byte == U32Low7(value) + (IF U32IsZero(rest) THEN 0 ELSE 128)
  IN IF i >= 5
       THEN [data |-> data, ok |-> FALSE]
       ELSE IF U32IsZero(rest) THEN [data |-> Append(data, byte), ok |-> ok]
                               ELSE LebLoop(rest, Append(data, byte), ok)

Leb128Bytes(value) == LebLoop(value, <<>>, TRUE)

out_leb128(buf, value) ==
  LET r == Leb128Bytes(value)
  IN IF r.ok THEN OutAppend(buf, r.data) ELSE [buf EXCEPT !.fault = TRUE]

\* out_cstr writing strlen(s) bytes, the terminating zero left out.
out_cstr_NoTerminator(buf, s) == OutAppend(buf, s)

\* out_cstr: strlen(s) + 1 bytes, the string and its terminating zero.
out_cstr(buf, s) == OutAppend(buf, s \o <<0>>)

\* wasm_copy_segment_data(data, dest, size): copies the size payload bytes.
wasm_copy_segment_data(mem, offset, segment) ==
  MemCopy(mem, offset, SubSeq(segment.data, 1, segment.size))

\* out_segment without the final size += segment->size.
out_segment_NoAdvance(buf, segment) ==
  IF buf.fault THEN buf
  ELSE LET offset == buf.size
           grown == ensure_output_buffer_capacity(buf, offset + segment.size)
       IN [grown EXCEPT !.mem = wasm_copy_segment_data(grown.mem, offset, segment)]

\* out_segment: raw copy at the end, then size += segment->size.
out_segment(buf, segment) ==
  IF buf.fault THEN buf
  ELSE LET offset == buf.size
           grown == ensure_output_buffer_capacity(buf, offset + segment.size)
       IN [grown EXCEPT !.mem = wasm_copy_segment_data(grown.mem, offset, segment),
                        !.size = buf.size + segment.size]

\* The content of the buffer: the bytes [0, size).
Content(buf) == SubSeq(buf.mem, 1, buf.size)
ByteAt(buf, offset) == buf.mem[offset + 1]
U32At(buf, offset) == FromLittleEndian(SubSeq(buf.mem, offset + 1, offset + 4))

(***************************************************************************)
(* Context ctx = {} in wasm_gen_file (wasm-gen.c:611-614).                 *)
(***************************************************************************)
NoModule ==
  [max_memory_size |-> 0, globals |-> <<>>, imports |-> <<>>,
   functions |-> <<>>, segments |-> <<>>]

ZeroContext ==
  [module |-> NoModule, buf |-> ZeroBuffer, function_num_exprs_offset |-> 0,
   function_header_offsets |-> <<>>, segment_header_offsets |-> <<>>]

Event(ev, a, b, c) == [ev |-> ev, a |-> a, b |-> b, c |-> c]

(***************************************************************************)
(* The module the parser hands to the callbacks (WasmModule of wasm.h).    *)
(* Value types and opcodes are the enumerations of wasm.h and              *)
(* wasm-internal.h; only their being distinct byte values matters here.    *)
(***************************************************************************)
WASM_TYPE_VOID == 0
WASM_TYPE_I32 == 1
WASM_TYPE_I64 == 2
WASM_TYPE_F32 == 3
WASM_TYPE_F64 == 4

WASM_OPCODE_NOP == 0
WASM_OPCODE_BLOCK == 1
WASM_OPCODE_LOOP == 2
WASM_OPCODE_IF == 3
WASM_OPCODE_IF_THEN == 4
WASM_OPCODE_I8_CONST == 9
WASM_OPCODE_I32_CONST == 10
WASM_OPCODE_I64_CONST == 11
WASM_OPCODE_F64_CONST == 12
WASM_OPCODE_F32_CONST == 13

DEFAULT_MEMORY_EXPORT == 1
GLOBAL_HEADERS_OFFSET == 8
GLOBAL_HEADER_SIZE == 6
SEGMENT_HEADER_SIZE == 13
SEGMENT_HEADER_DATA_OFFSET == 4

FUNC_HEADERS_OFFSET(num_globals) ==
  GLOBAL_HEADERS_OFFSET + num_globals * GLOBAL_HEADER_SIZE
\* The header size without the eight bytes of the local counts.
FUNC_HEADER_SIZE_NoLocals(num_args) == 16 + num_args

FUNC_HEADER_SIZE(num_args) == 24 + num_args
FUNC_SIG_SIZE(num_args) == 2 + num_args
FUNC_HEADER_NAME_OFFSET(num_args) == FUNC_SIG_SIZE(num_args) + 0
FUNC_HEADER_CODE_START_OFFSET(num_args) == FUNC_SIG_SIZE(num_args) + 4
FUNC_HEADER_CODE_END_OFFSET(num_args) == FUNC_SIG_SIZE(num_args) + 8
FUNC_HEADER_EXPORTED_OFFSET(num_args) == FUNC_SIG_SIZE(num_args) + 20

\* log_two_u32: 0 for 0, else 32 - clz(x - 1).  __builtin_clz(0) is
\* undefined, so for x = 1 any count 0..32 may come back.
log_two_u32(x) ==
  IF x = 0 THEN {0}
  ELSE IF x = 1 THEN {32 - clz : clz \in 0..32}
  ELSE {BitLen(x - 1)}

\* const uint8_t global_type_codes[WASM_NUM_TYPES] = {-1, 4, 6, 8, 9}
global_type_codes == <<255, 4, 6, 8, 9>>

\* for (i = 0; i < module->globals.size; ++i): the global headers.
RECURSIVE OutGlobalHeaders(_, _, _)
OutGlobalHeaders(buf, module, i) ==
  IF buf.fault \/ i >= Len(module.globals) THEN buf
  ELSE LET global == module.globals[i + 1]
           b1 == out_u32(buf, 0)
           b2 == out_u8(b1, global_type_codes[global + 1])
           b3 == out_u8(b2, 0)
       IN OutGlobalHeaders(b3, module, i + 1)

\* for (j = 0; j < num_args; ++j) out_u8(buf, type of argument j).
RECURSIVE OutArgTypes(_, _, _, _)
OutArgTypes(buf, types, num_args, j) ==
  IF j >= num_args THEN buf
  ELSE OutArgTypes(out_u8(buf, types[j + 1]), types, num_args, j + 1)

\* The name, code start and code end placeholders, the four local counts,
\* the export flag and the external flag that end a function header.
OutFuncHeaderTail(buf, counts, external) ==
  LET b1 == out_u32(out_u32(out_u32(buf, 0), 0), 0)
      b2 == out_u16(out_u16(out_u16(out_u16(b1, counts[1]), counts[2]),
                            counts[3]), counts[4])
  IN out_u8(out_u8(b2, 0), external)

RECURSIVE OutImportHeaders(_, _, _)
OutImportHeaders(buf, module, i) ==
  IF buf.fault \/ i >= Len(module.imports) THEN buf
  ELSE LET import == module.imports[i + 1]
           b1 == out_u8(out_u8(buf, Len(import.args)), import.result_type)
           b2 == OutArgTypes(b1, import.args, Len(import.args), 0)
           b3 == OutFuncHeaderTail(b2, <<0, 0, 0, 0>>, 1)
       IN OutImportHeaders(b3, module, i + 1)

\* num_locals[type]: the locals past the arguments, counted by type.
NumLocals(function, type) ==
  Cardinality({j \in (function.num_args + 1)..Len(function.locals) :
                 function.locals[j] = type})

RECURSIVE OutFunctionHeaders(_, _, _)
OutFunctionHeaders(buf, module, i) ==
  IF buf.fault \/ i >= Len(module.functions) THEN buf
  ELSE LET function == module.functions[i + 1]
           b1 == out_u8(out_u8(buf, function.num_args), function.result_type)
           b2 == OutArgTypes(b1, function.locals, function.num_args, 0)
           counts == <<NumLocals(function, WASM_TYPE_I32),
                       NumLocals(function, WASM_TYPE_I64),
                       NumLocals(function, WASM_TYPE_F32),
                       NumLocals(function, WASM_TYPE_F64)>>
           b3 == OutFuncHeaderTail(b2, counts, 0)
       IN OutFunctionHeaders(b3, module, i + 1)

RECURSIVE OutSegmentHeaders(_, _, _)
OutSegmentHeaders(buf, module, i) ==
  IF buf.fault \/ i >= Len(module.segments) THEN buf
  ELSE LET segment == module.segments[i + 1]
           b1 == out_u32(out_u32(out_u32(buf, segment.address), 0), segment.size)
           b2 == out_u8(b1, 1)
       IN OutSegmentHeaders(b2, module, i + 1)

\* out_module_header; memlog is the value log_two_u32 returned.
out_module_header(buf, module, memlog) ==
  LET b1 == out_u8(out_u8(buf, memlog), DEFAULT_MEMORY_EXPORT)
      b2 == out_u16(b1, Len(module.globals))
      b3 == out_u16(b2, Len(module.imports) + Len(module.functions))
      b4 == out_u16(b3, Len(module.segments))
      b5 == OutGlobalHeaders(b4, module, 0)
      b6 == OutImportHeaders(b5, module, 0)
      b7 == OutFunctionHeaders(b6, module, 0)
  IN OutSegmentHeaders(b7, module, 0)

\* The loops of before_module: the running offset after the first i import
\* headers, function headers and segment headers.
\* The planner starting at the first import header instead of past the last.
SkipImports_None(module, i, offset) == offset

RECURSIVE SkipImports(_, _, _)
SkipImports(module, i, offset) ==
  IF i >= Len(module.imports) THEN offset
  ELSE SkipImports(module, i + 1,
                   offset + FUNC_HEADER_SIZE(Len(module.imports[i + 1].args)))

RECURSIVE PlanFunctions(_, _, _, _)
PlanFunctions(module, i, offset, table) ==
  IF i >= Len(module.functions) THEN [offset |-> offset, table |-> table]
  ELSE PlanFunctions(module, i + 1,
                     offset + FUNC_HEADER_SIZE(module.functions[i + 1].num_args),
                     Append(table, offset))

RECURSIVE PlanSegments(_, _, _, _)
PlanSegments(module, i, offset, table) ==
  IF i >= Len(module.segments) THEN table
  ELSE PlanSegments(module, i + 1, offset + SEGMENT_HEADER_SIZE,
                    Append(table, offset))

before_module(c, module, memlog) ==
  LET start == SkipImports(module, 0, FUNC_HEADERS_OFFSET(Len(module.globals)))
      funcs == PlanFunctions(module, 0, start, <<>>)
      segs == PlanSegments(module, 0, funcs.offset, <<>>)
      fresh == init_output_buffer(c.buf, INITIAL_OUTPUT_BUFFER_CAPACITY)
  IN [c EXCEPT !.function_header_offsets = funcs.table,
               !.segment_header_offsets = segs,
               !.module = module,
               !.buf = out_module_header(fresh, module, memlog)]

\* out_module_footer, first loop: segment i's data-offset fixup and payload.
RECURSIVE FooterSegments(_, _, _)
FooterSegments(c, buf, i) ==
  IF buf.fault \/ i >= Len(c.module.segments) THEN buf
  ELSE LET fixed == out_u32_at(buf,
                      c.segment_header_offsets[i + 1] + SEGMENT_HEADER_DATA_OFFSET,
                      buf.size)
           copied == out_segment(fixed, c.module.segments[i + 1])
       IN FooterSegments(c, copied, i + 1)

\* out_module_footer, the import names.
RECURSIVE FooterImports(_, _, _, _)
FooterImports(c, buf, i, offset) ==
  IF buf.fault \/ i >= Len(c.module.imports) THEN [buf |-> buf, offset |-> offset]
  ELSE LET import == c.module.imports[i + 1]
           fixed == out_u32_at(buf,
                      offset + FUNC_HEADER_NAME_OFFSET(Len(import.args)), buf.size)
           named == out_cstr(fixed, import.func_name)
       IN FooterImports(c, named, i + 1,
                        offset + FUNC_HEADER_SIZE(Len(import.args)))

\* out_module_footer, the names of the exported functions.
RECURSIVE FooterFunctions(_, _, _, _)
FooterFunctions(c, buf, i, offset) ==
  IF buf.fault \/ i >= Len(c.module.functions) THEN buf
  ELSE LET function == c.module.functions[i + 1]
           fixed == out_u32_at(buf,
                      offset + FUNC_HEADER_NAME_OFFSET(function.num_args), buf.size)
           named == IF function.exported
                      THEN out_cstr(fixed, function.exported_name)
                      ELSE buf
       IN FooterFunctions(c, named, i + 1,
                          offset + FUNC_HEADER_SIZE(function.num_args))

out_module_footer(c) ==
  LET b1 == FooterSegments(c, c.buf, 0)
      r == FooterImports(c, b1, 0, FUNC_HEADERS_OFFSET(Len(c.module.globals)))
  IN FooterFunctions(c, r.buf, 0, r.offset)

after_module(c) == [c EXCEPT !.buf = out_module_footer(c)]

before_function(c, function_index) ==
  LET function == c.module.functions[function_index + 1]
      b1 == out_u32_at(c.buf,
              c.function_header_offsets[function_index + 1]
                + FUNC_HEADER_CODE_START_OFFSET(function.num_args),
              c.buf.size)
      b2 == out_opcode(b1, WASM_OPCODE_BLOCK)
  IN [c EXCEPT !.function_num_exprs_offset = b2.size,
               !.buf = out_u8(b2, 0)]

\* after_function keeping the code end in the table entry as well.
after_function_MovesEntry(c, function_index, num_exprs) ==
  LET function == c.module.functions[function_index + 1]
      b1 == out_u8_at(c.buf, c.function_num_exprs_offset, num_exprs)
  IN [c EXCEPT !.buf = out_u32_at(b1,
                         c.function_header_offsets[function_index + 1]
                           + FUNC_HEADER_CODE_END_OFFSET(function.num_args),
                         b1.size),
               !.function_header_offsets[function_index + 1] = b1.size]

after_function(c, function_index, num_exprs) ==
  LET function == c.module.functions[function_index + 1]
      b1 == out_u8_at(c.buf, c.function_num_exprs_offset, num_exprs)
  IN [c EXCEPT !.buf = out_u32_at(b1,
                         c.function_header_offsets[function_index + 1]
                           + FUNC_HEADER_CODE_END_OFFSET(function.num_args),
                         b1.size)]

\* after_export appending the flag instead of patching it.
after_export_Appends(c, function_index) == [c EXCEPT !.buf = out_u8(c.buf, 1)]

\* after_export leaving the header as it is.
after_export_None(c, function_index) == c

after_export(c, function_index) ==
  LET function == c.module.functions[function_index + 1]
  IN [c EXCEPT !.buf = out_u8_at(c.buf,
                         c.function_header_offsets[function_index + 1]
                           + FUNC_HEADER_EXPORTED_OFFSET(function.num_args),
                         1)]

\* The opcode without the placeholder behind it.
OpenCounted_NoPlaceholder(c, opcode) ==
  LET b1 == out_opcode(c.buf, opcode)
  IN [ctx |-> [c EXCEPT !.buf = b1], cookie |-> b1.size]

\* before_block, before_label and before_loop: the opcode, then the count
\* placeholder whose offset is the cookie.
OpenCounted(c, opcode) ==
  LET b1 == out_opcode(c.buf, opcode)
  IN [ctx |-> [c EXCEPT !.buf = out_u8(b1, 0)], cookie |-> b1.size]

before_block(c) == OpenCounted(c, WASM_OPCODE_BLOCK)
before_label(c) == OpenCounted(c, WASM_OPCODE_BLOCK)
before_loop(c) == OpenCounted(c, WASM_OPCODE_LOOP)

\* after_block storing 255 for every count past 255.
after_block_Saturates(c, num_exprs, cookie) ==
  [c EXCEPT !.buf = out_u8_at(c.buf, cookie, IF num_exprs > 255 THEN 255 ELSE num_exprs)]

after_block(c, num_exprs, cookie) ==
  [c EXCEPT !.buf = out_u8_at(c.buf, cookie, num_exprs)]
after_label(c, num_exprs, cookie) ==
  [c EXCEPT !.buf = out_u8_at(c.buf, cookie, num_exprs)]
after_loop(c, num_exprs, cookie) ==
  [c EXCEPT !.buf = out_u8_at(c.buf, cookie, num_exprs)]

before_if(c) ==
  [ctx |-> [c EXCEPT !.buf = out_opcode(c.buf, WASM_OPCODE_IF)],
   cookie |-> c.buf.size]

\* after_if patching whether or not there is an alternate.
after_if_Always(c, with_else, cookie) ==
  [c EXCEPT !.buf = out_u8_at(c.buf, cookie, WASM_OPCODE_IF_THEN)]

after_if(c, with_else, cookie) ==
  IF with_else
    THEN [c EXCEPT !.buf = out_u8_at(c.buf, cookie, WASM_OPCODE_IF_THEN)]
    ELSE c

after_nop(c) == [c EXCEPT !.buf = out_opcode(c.buf, WASM_OPCODE_NOP)]

WASM_OPCODE_BREAK == 6
WASM_OPCODE_CALL == 18

\* after_break: the opcode and the depth, stored with out_u8.
after_break(c, depth) ==
  [c EXCEPT !.buf = out_u8(out_opcode(c.buf, WASM_OPCODE_BREAK), depth)]

\* before_call writing the function index as it is.
before_call_NoRemap(c, function_index) ==
  [c EXCEPT !.buf = out_leb128(out_opcode(c.buf, WASM_OPCODE_CALL),
                               ToU32(function_index))]

\* before_call: defined functions are always after all imports.
before_call(c, function_index) ==
  [c EXCEPT !.buf = out_leb128(out_opcode(c.buf, WASM_OPCODE_CALL),
                               ToU32(Len(c.module.imports) + function_index))]

before_call_import(c, import_index) ==
  [c EXCEPT !.buf = out_leb128(out_opcode(c.buf, WASM_OPCODE_CALL),
                               ToU32(import_index))]

\* after_nop called k times in a row.
RECURSIVE NopTimes(_, _)
NopTimes(c, k) ==
  IF c.buf.fault \/ k = 0 THEN c
  ELSE IF k = 1 THEN after_nop(c)
  ELSE NopTimes(NopTimes(c, k \div 2), k - k \div 2)

\* after_const with the compact range closed at 127.
after_const_Inclusive(c, opcode, type, value) ==
  CASE type = WASM_TYPE_I32 ->
         IF value >= -128 /\ value <= 127
           THEN [c EXCEPT !.buf =
                   out_u8(out_opcode(c.buf, WASM_OPCODE_I8_CONST), value)]
           ELSE [c EXCEPT !.buf = out_u32(out_opcode(c.buf, opcode), value)]
    [] type = WASM_TYPE_I64 ->
         [c EXCEPT !.buf = out_u64(out_opcode(c.buf, opcode), value)]
    [] type = WASM_TYPE_F32 ->
         [c EXCEPT !.buf = out_f32(out_opcode(c.buf, opcode), value)]
    [] type = WASM_TYPE_F64 ->
         [c EXCEPT !.buf = out_f64(out_opcode(c.buf, opcode), value)]
    [] OTHER -> [c EXCEPT !.buf.fault = TRUE]

\* after_const; value is the int32_t for an i32, the 32-bit pattern for an
\* f32 and the two halves [lo, hi] for an i64 or f64.
after_const(c, opcode, type, value) ==
  CASE type = WASM_TYPE_I32 ->
         IF value >= -128 /\ value < 127
           THEN [c EXCEPT !.buf =
                   out_u8(out_opcode(c.buf, WASM_OPCODE_I8_CONST), value)]
           ELSE [c EXCEPT !.buf = out_u32(out_opcode(c.buf, opcode), value)]
    [] type = WASM_TYPE_I64 ->
         [c EXCEPT !.buf = out_u64(out_opcode(c.buf, opcode), value)]
    [] type = WASM_TYPE_F32 ->
         [c EXCEPT !.buf = out_f32(out_opcode(c.buf, opcode), value)]
    [] type = WASM_TYPE_F64 ->
         [c EXCEPT !.buf = out_f64(out_opcode(c.buf, opcode), value)]
    [] OTHER -> [c EXCEPT !.buf.fault = TRUE]

(***************************************************************************)
(* The modules the driver presents.  The parser has fixed every count,     *)
(* signature, export flag and name before it calls before_module.          *)
(***************************************************************************)
ArgTypes(n) == [j \in 1..n |-> IF j % 2 = 1 THEN WASM_TYPE_I32 ELSE WASM_TYPE_F64]

ImportDecl(i, n) ==
  [args |-> ArgTypes(n), result_type |-> WASM_TYPE_I32, func_name |-> <<105, 48 + i>>]

\* "main" for function 0, "f<i>" for function i.
ExportName(i) == IF i = 0 THEN <<109, 97, 105, 110>> ELSE <<102, 48 + i>>

\* Function i takes i arguments; the ones with arguments have three locals.
FunctionDecl(i, e) ==
  LET n == i IN
  [num_args |-> n,
   locals |-> ArgTypes(n) \o (IF n = 0 THEN <<>> ELSE <<WASM_TYPE_I64, WASM_TYPE_I32, WASM_TYPE_I64>>),
   result_type |-> IF n = 0 THEN WASM_TYPE_VOID ELSE WASM_TYPE_I32,
   exported |-> e,
   exported_name |-> IF e THEN ExportName(i) ELSE <<>>]

SegmentDecl(i) ==
  CASE i = 0 -> [address |-> 0, size |-> 4, data |-> <<1, 2, 3, 4>>]
    [] i = 1 -> [address |-> 8, size |-> 2, data |-> <<170, 187>>]
    [] i = 2 -> [address |-> 16, size |-> 0, data |-> <<>>]
    [] OTHER -> [address |-> 8 * i, size |-> 1, data |-> <<i>>]

\* A module with imports declares two globals and a memory; one without
\* declares neither.
MemorySize(g) == IF g = <<>> THEN 0 ELSE 65536
GlobalsFor(i) == IF i = <<>> THEN <<>> ELSE <<WASM_TYPE_I32, WASM_TYPE_F64>>
ImportLists == {<<>>, <<ImportDecl(0, 2), ImportDecl(1, 1)>>}
FunctionLists ==
  UNION {{[i \in 1..k |-> FunctionDecl(i - 1, e[i])] : e \in [1..k -> BOOLEAN]} :
           k \in 0..MaxFuncs}
SegmentLists == {[i \in 1..k |-> SegmentDecl(i - 1)] : k \in 0..MaxSegs}

Shapes ==
  {[max_memory_size |-> MemorySize(GlobalsFor(i)), globals |-> GlobalsFor(i),
    imports |-> i, functions |-> f, segments |-> s] :
     i \in ImportLists, f \in FunctionLists, s \in SegmentLists}
    \cup {[NoModule EXCEPT !.max_memory_size = 1]}

(***************************************************************************)
(* The driver: the event protocol of the parser, one action per callback.  *)
(***************************************************************************)
Init ==
  /\ ctx = ZeroContext
  /\ phase = "start"
  /\ nextFn = 0
  /\ stack = <<>>
  /\ exported = {}
  /\ trace = <<>>

NumFunctions == Len(ctx.module.functions)

Frame(kind, cookie) == [kind |-> kind, cookie |-> cookie, n |-> 0]

\* One more expression in the innermost open region.
CountExprs(st, k) == [st EXCEPT ![Len(st)].n = @ + k]

\* The innermost region closed: it is one expression of its parent.
PopRegion(st) == CountExprs(SubSeq(st, 1, Len(st) - 1), 1)

ExprEvents ==
  {"nop", "nops", "const", "block_open", "loop_open", "label_open", "if_open"}
BodyEvents(t) == Cardinality({k \in DOMAIN t : t[k].ev \in ExprEvents})

\* The driver may deliver one more expression event.
CanEmit ==
  /\ phase = "function"
  /\ BodyEvents(trace) < MaxBody

ModuleOpen ==
  \E m \in Shapes : \E memlog \in log_two_u32(m.max_memory_size) :
    /\ phase = "start"
    /\ ctx' = before_module(ctx, m, memlog)
    /\ phase' = "module"
    /\ nextFn' = 0
    /\ exported' = {}
    /\ trace' = Append(trace, Event("module_open", 0, 0, 0))
    /\ UNCHANGED stack

FunctionOpen ==
  /\ phase = "module"
  /\ nextFn < NumFunctions
  /\ ctx' = before_function(ctx, nextFn)
  /\ phase' = "function"
  /\ stack' = <<Frame("function", 0)>>
  /\ trace' = Append(trace, Event("function_open", nextFn, ctx.buf.size, 0))
  /\ UNCHANGED <<nextFn, exported>>

FunctionClose ==
  /\ phase = "function"
  /\ Len(stack) = 1
  /\ ctx' = after_function(ctx, nextFn, stack[1].n)
  /\ phase' = "module"
  /\ nextFn' = nextFn + 1
  /\ stack' = <<>>
  /\ trace' = Append(trace, Event("function_close", nextFn, stack[1].n, ctx.buf.size))
  /\ UNCHANGED exported

Export ==
  \E f \in 0..(NumFunctions - 1) :
    /\ phase = "module"
    /\ ctx.module.functions[f + 1].exported
    /\ f \notin exported
    /\ ctx' = after_export(ctx, f)
    /\ exported' = exported \cup {f}
    /\ trace' = Append(trace, Event("export", f, 0, 0))
    /\ UNCHANGED <<phase, nextFn, stack>>

ModuleClose ==
  /\ phase = "module"
  /\ nextFn = NumFunctions
  /\ \A f \in 0..(NumFunctions - 1) :
       ctx.module.functions[f + 1].exported => f \in exported
  /\ ctx' = after_module(ctx)
  /\ phase' = "done"
  /\ trace' = Append(trace, Event("module_close", ctx.buf.size, 0, 0))
  /\ UNCHANGED <<nextFn, stack, exported>>

Nop ==
  /\ CanEmit
  /\ ctx' = after_nop(ctx)
  /\ stack' = CountExprs(stack, 1)
  /\ trace' = Append(trace, Event("nop", 0, 0, 0))
  /\ UNCHANGED <<phase, nextFn, exported>>

\* A run of WideRun no-op expressions.
Nops ==
  /\ CanEmit
  /\ ctx' = NopTimes(ctx, WideRun)
  /\ stack' = CountExprs(stack, WideRun)
  /\ trace' = Append(trace, Event("nops", WideRun, 0, 0))
  /\ UNCHANGED <<phase, nextFn, exported>>

\* An open handler has run: r is what it returned.
Opened(kind, r) ==
  /\ ctx' = r.ctx
  /\ stack' = Append(stack, Frame(kind, r.cookie))
  /\ trace' = Append(trace, Event(kind \o "_open", r.cookie, 0, 0))
  /\ UNCHANGED <<phase, nextFn, exported>>

\* A close handler has run on the innermost region, leaving context c.
Closed(kind, c, flag) ==
  /\ ctx' = c
  /\ stack' = PopRegion(stack)
  /\ trace' = Append(trace,
                Event(kind \o "_close", stack[Len(stack)].cookie,
                      stack[Len(stack)].n, flag))
  /\ UNCHANGED <<phase, nextFn, exported>>

Top == stack[Len(stack)]
InRegion(kind) == phase = "function" /\ Len(stack) > 1 /\ Top.kind = kind

BlockOpen == CanEmit /\ Opened("block", before_block(ctx))
BlockClose ==
  InRegion("block") /\ Closed("block", after_block(ctx, Top.n, Top.cookie), 0)

LoopOpen == CanEmit /\ Opened("loop", before_loop(ctx))
LoopClose ==
  InRegion("loop") /\ Closed("loop", after_loop(ctx, Top.n, Top.cookie), 0)

LabelOpen == CanEmit /\ Opened("label", before_label(ctx))
LabelClose ==
  InRegion("label") /\ Closed("label", after_label(ctx, Top.n, Top.cookie), 0)

\* A conditional has a condition, a branch and at most one alternate.
IfOpen == CanEmit /\ Opened("if", before_if(ctx))
IfClose ==
  /\ InRegion("if")
  /\ Top.n \in {2, 3}
  /\ Closed("if", after_if(ctx, Top.n = 3, Top.cookie), IF Top.n = 3 THEN 1 ELSE 0)

Next ==
  \/ ModuleOpen \/ FunctionOpen \/ FunctionClose \/ Export \/ ModuleClose
  \/ Nop

Spec == Init /\ [][Next]_vars

(***************************************************************************)
(* SpecNest: function bodies with nested regions and long runs of          *)
(* expressions, on modules of 1..MaxFuncs functions without exports.       *)
(***************************************************************************)
NestShapes ==
  {[max_memory_size |-> MemorySize(GlobalsFor(i)), globals |-> GlobalsFor(i),
    imports |-> i,
    functions |-> [j \in 1..k |-> FunctionDecl(j - 1, FALSE)],
    segments |-> <<SegmentDecl(0)>>] :
     k \in 1..MaxFuncs, i \in {<<ImportDecl(0, 2)>>}}

ModuleOpenNest ==
  \E m \in NestShapes : \E memlog \in log_two_u32(m.max_memory_size) :
    /\ phase = "start"
    /\ ctx' = before_module(ctx, m, memlog)
    /\ phase' = "module"
    /\ nextFn' = 0
    /\ exported' = {}
    /\ trace' = Append(trace, Event("module_open", 0, 0, 0))
    /\ UNCHANGED stack

NextNest ==
  \/ ModuleOpenNest \/ FunctionOpen \/ FunctionClose \/ ModuleClose
  \/ Nop \/ Nops
  \/ BlockOpen \/ BlockClose \/ LoopOpen \/ LoopClose
  \/ LabelOpen \/ LabelClose \/ IfOpen \/ IfClose

SpecNest == Init /\ [][NextNest]_vars

(***************************************************************************)
(* SpecConst: function bodies made of literal events, on a module of one   *)
(* function.                                                               *)
(***************************************************************************)
ConstShapes ==
  {[NoModule EXCEPT !.functions = <<FunctionDecl(0, FALSE)>>]}

ModuleOpenConst ==
  \E m \in ConstShapes : \E memlog \in log_two_u32(m.max_memory_size) :
    /\ phase = "start"
    /\ ctx' = before_module(ctx, m, memlog)
    /\ phase' = "module"
    /\ nextFn' = 0
    /\ exported' = {}
    /\ trace' = Append(trace, Event("module_open", 0, 0, 0))
    /\ UNCHANGED stack

\* The int32_t literals around the compaction boundary and at the extremes.
I32Literals == {-2147483647 - 1, -129, -128, -1, 0, 126, 127, 128, 2147483647}
\* 64-bit patterns as halves: small values, a negative one, a wide one.
WideLiterals ==
  {[lo |-> 0, hi |-> 0], [lo |-> 5, hi |-> 0], [lo |-> -128, hi |-> -1],
   [lo |-> 2018915346, hi |-> 305419896]}
\* 32-bit float patterns: 0.0, 1.0, -2.0 and the pattern of the integer 5.
F32Literals == {0, 1065353216, -1073741824, 5}

\* after_const has run with the opcode the parser pairs with the type.
Literal(opcode, type, value) ==
  /\ CanEmit
  /\ ctx' = after_const(ctx, opcode, type, value)
  /\ stack' = CountExprs(stack, 1)
  /\ trace' = Append(trace,
                Event("const", ctx.buf.size, [type |-> type, value |-> value],
                      ctx'.buf.size))
  /\ UNCHANGED <<phase, nextFn, exported>>

ConstI32 == \E v \in I32Literals : Literal(WASM_OPCODE_I32_CONST, WASM_TYPE_I32, v)
ConstI64 == \E v \in WideLiterals : Literal(WASM_OPCODE_I64_CONST, WASM_TYPE_I64, v)
ConstF32 == \E v \in F32Literals : Literal(WASM_OPCODE_F32_CONST, WASM_TYPE_F32, v)
ConstF64 == \E v \in WideLiterals : Literal(WASM_OPCODE_F64_CONST, WASM_TYPE_F64, v)

NextConst ==
  \/ ModuleOpenConst \/ FunctionOpen \/ FunctionClose \/ ModuleClose
  \/ ConstI32 \/ ConstI64 \/ ConstF32 \/ ConstF64

SpecConst == Init /\ [][NextConst]_vars

(***************************************************************************)
(* SpecLeaf: function bodies made of branch and call events, on modules of *)
(* two functions with no, two and ManyImports imports.                     *)
(***************************************************************************)
ManyImports == 40
MaxLeafBody == 2

LeafShape(imports) ==
  [max_memory_size |-> MemorySize(GlobalsFor(imports)), globals |-> GlobalsFor(imports),
   imports |-> imports,
   functions |-> <<FunctionDecl(0, FALSE), FunctionDecl(1, FALSE)>>,
   segments |-> <<>>]

LeafShapes ==
  {LeafShape(i) : i \in ImportLists \cup {[j \in 1..ManyImports |-> ImportDecl(j - 1, 0)]}}

ModuleOpenLeaf ==
  \E m \in LeafShapes : \E memlog \in log_two_u32(m.max_memory_size) :
    /\ phase = "start"
    /\ ctx' = before_module(ctx, m, memlog)
    /\ phase' = "module"
    /\ nextFn' = 0
    /\ exported' = {}
    /\ trace' = Append(trace, Event("module_open", 0, 0, 0))
    /\ UNCHANGED stack

LeafEvents == {"break", "call", "call_import"}

\* The driver may deliver one more branch or call.
CanEmitLeaf ==
  /\ phase = "function"
  /\ Cardinality({k \in DOMAIN trace : trace[k].ev \in LeafEvents}) < MaxLeafBody

\* The nesting depths a branch names: the innermost region, the last depth
\* of one byte's low seven bits, the first past it, and one past a byte.
BreakDepths == {0, 1, 127, 128, 300}

Break ==
  \E depth \in BreakDepths :
    /\ CanEmitLeaf
    /\ ctx' = after_break(ctx, depth)
    /\ stack' = CountExprs(stack, 1)
    /\ trace' = Append(trace, Event("break", depth, ctx.buf.size, ctx'.buf.size))
    /\ UNCHANGED <<phase, nextFn, exported>>

Call ==
  \E f \in 0..(NumFunctions - 1) :
    /\ CanEmitLeaf
    /\ ctx' = before_call(ctx, f)
    /\ stack' = CountExprs(stack, 1)
    /\ trace' = Append(trace, Event("call", f, ctx.buf.size, ctx'.buf.size))
    /\ UNCHANGED <<phase, nextFn, exported>>

\* The first two imports and the last one.
CallImport ==
  \E i \in {j \in {0, 1, Len(ctx.module.imports) - 1} : j >= 0} :
    /\ CanEmitLeaf
    /\ i < Len(ctx.module.imports)
    /\ ctx' = before_call_import(ctx, i)
    /\ stack' = CountExprs(stack, 1)
    /\ trace' = Append(trace, Event("call_import", i, ctx.buf.size, ctx'.buf.size))
    /\ UNCHANGED <<phase, nextFn, exported>>

NextLeaf ==
  \/ ModuleOpenLeaf \/ FunctionOpen \/ FunctionClose \/ ModuleClose
  \/ Break \/ Call \/ CallImport

SpecLeaf == Init /\ [][NextLeaf]_vars

(***************************************************************************)
(* SpecFlush: wasm_gen_file to its return or to the exit of the process.   *)
(* The C library's outcomes are the driver's choices: malloc may return    *)
(* NULL, fopen may return NULL, fwrite may return any count up to the one  *)
(* asked for, the bytes it counts being in the file.                       *)
(***************************************************************************)
\* write_output_buffer: opened, whether fopen returned a stream (the file,
\* opened "wb", is then empty); written, what fwrite returned.  fatal: FATAL
\* has ended the process; bytes: what the file holds.
write_output_buffer(buf, opened, written) ==
  IF ~opened THEN [fatal |-> TRUE, opened |-> FALSE, bytes |-> <<>>]
  ELSE [fatal |-> written # buf.size, opened |-> TRUE,
        bytes |-> SubSeq(buf.mem, 1, written)]

FlushShapes == {NoModule, [NoModule EXCEPT !.functions = <<FunctionDecl(0, FALSE)>>]}

ModuleOpenFlush ==
  \E m \in FlushShapes : \E memlog \in log_two_u32(m.max_memory_size) :
    /\ phase = "start"
    /\ ctx' = before_module(ctx, m, memlog)
    /\ phase' = "module"
    /\ nextFn' = 0
    /\ exported' = {}
    /\ trace' = Append(trace, Event("module_open", 0, 0, 0))
    /\ UNCHANGED stack

\* init_output_buffer: malloc has returned NULL, FATAL.
AllocationFails ==
  /\ phase = "start"
  /\ phase' = "fatal"
  /\ trace' = Append(trace, Event("malloc_null", 0, 0, 0))
  /\ UNCHANGED <<ctx, nextFn, stack, exported>>

\* wasm_parse_module has returned a result other than 0: nothing is written.
ParseFails ==
  /\ phase \in {"start", "module", "function"}
  /\ phase' = "error"
  /\ trace' = Append(trace, Event("parse_error", 1, 0, 0))
  /\ UNCHANGED <<ctx, nextFn, stack, exported>>

\* result == 0 && g_outfile: write_output_buffer(&buf, g_outfile).
WriteOutput ==
  \E opened \in BOOLEAN : \E written \in 0..ctx.buf.size :
    LET r == write_output_buffer(ctx.buf, opened, written) IN
    /\ phase = "done"
    /\ opened \/ written = 0
    /\ phase' = IF r.fatal THEN "fatal" ELSE "written"
    /\ trace' = Append(trace, Event("write_output", r, 0, 0))
    /\ UNCHANGED <<ctx, nextFn, stack, exported>>

\* result == 0 with g_outfile NULL, or multi_module: nothing is written.
NoOutput ==
  /\ phase = "done"
  /\ phase' = "returned"
  /\ trace' = Append(trace, Event("return", 0, 0, 0))
  /\ UNCHANGED <<ctx, nextFn, stack, exported>>

NextFlush ==
  \/ ModuleOpenFlush \/ FunctionOpen \/ FunctionClose \/ ModuleClose \/ Nop
  \/ AllocationFails \/ ParseFails \/ WriteOutput \/ NoOutput

SpecFlush == Init /\ [][NextFlush]_vars

(***************************************************************************)
(* SpecLayout: every module shape with at most one exported function, with *)
(* bodies of at most MaxLayoutBody expressions in the whole module.        *)
(***************************************************************************)
MaxLayoutBody == 1

LayoutShapes ==
  {m \in Shapes :
     Cardinality({i \in DOMAIN m.functions : m.functions[i].exported}) <= 1}

ModuleOpenLayout ==
  \E m \in LayoutShapes : \E memlog \in log_two_u32(m.max_memory_size) :
    /\ phase = "start"
    /\ ctx' = before_module(ctx, m, memlog)
    /\ phase' = "module"
    /\ nextFn' = 0
    /\ exported' = {}
    /\ trace' = Append(trace, Event("module_open", 0, 0, 0))
    /\ UNCHANGED stack

LayoutNop ==
  /\ phase = "function"
  /\ BodyEvents(trace) < MaxLayoutBody
  /\ ctx' = after_nop(ctx)
  /\ stack' = CountExprs(stack, 1)
  /\ trace' = Append(trace, Event("nop", 0, 0, 0))
  /\ UNCHANGED <<phase, nextFn, exported>>

NextLayout ==
  \/ ModuleOpenLayout \/ FunctionOpen \/ FunctionClose \/ Export \/ ModuleClose
  \/ LayoutNop

SpecLayout == Init /\ [][NextLayout]_vars

(***************************************************************************)
(* SpecReuse: one engine (one Context, one OutputBuffer) driven through    *)
(* 1 + Reuses module cycles in a row, as wasm_parse_file does for a file   *)
(* of several modules.                                                     *)
(***************************************************************************)
ReuseShapes ==
  {NoModule,
   [max_memory_size |-> 65536, globals |-> <<WASM_TYPE_I32, WASM_TYPE_F64>>,
    imports |-> <<ImportDecl(0, 2)>>, functions |-> <<FunctionDecl(0, TRUE)>>,
    segments |-> <<SegmentDecl(0)>>],
   [NoModule EXCEPT !.functions = <<FunctionDecl(0, FALSE), FunctionDecl(1, FALSE)>>]}

ModulesOpened == Cardinality({k \in DOMAIN trace : trace[k].ev = "module_open"})

\* before_module on the engine as the previous cycle, if any, has left it.
ModuleOpenReuse ==
  \E m \in ReuseShapes : \E memlog \in log_two_u32(m.max_memory_size) :
    /\ phase \in {"start", "done"}
    /\ ModulesOpened <= Reuses
    /\ ctx' = before_module(ctx, m, memlog)
    /\ phase' = "module"
    /\ nextFn' = 0
    /\ exported' = {}
    /\ trace' = Append(trace, Event("module_open", memlog, m, 0))
    /\ UNCHANGED stack

NextReuse ==
  \/ ModuleOpenReuse \/ FunctionOpen \/ FunctionClose \/ Export \/ ModuleClose
  \/ Nop

SpecReuse == Init /\ [][NextReuse]_vars

(***************************************************************************)
(* SpecProtocol: the whole event protocol on one module, with bodies deep   *)
(* enough for a conditional with an alternate inside another region.       *)
(***************************************************************************)
\* Two globals, an import, a segment and one function: exported or not.
ProtocolShapes ==
  {[max_memory_size |-> 65536, globals |-> <<WASM_TYPE_I32, WASM_TYPE_F64>>,
    imports |-> <<ImportDecl(0, 2)>>,
    functions |-> <<FunctionDecl(0, e)>>,
    segments |-> <<SegmentDecl(0)>>] : e \in BOOLEAN}

ModuleOpenProtocol ==
  \E m \in ProtocolShapes : \E memlog \in log_two_u32(m.max_memory_size) :
    /\ phase = "start"
    /\ ctx' = before_module(ctx, m, memlog)
    /\ phase' = "module"
    /\ nextFn' = 0
    /\ exported' = {}
    /\ trace' = Append(trace, Event("module_open", memlog, m, 0))
    /\ UNCHANGED stack

\* The driver may deliver one more expression event of a deep body.
CanEmitDeep ==
  /\ phase = "function"
  /\ BodyEvents(trace) < MaxDeepBody

DeepNop ==
  /\ CanEmitDeep
  /\ ctx' = after_nop(ctx)
  /\ stack' = CountExprs(stack, 1)
  /\ trace' = Append(trace, Event("nop", 0, 0, 0))
  /\ UNCHANGED <<phase, nextFn, exported>>

DeepBlockOpen == CanEmitDeep /\ Opened("block", before_block(ctx))
DeepLoopOpen == CanEmitDeep /\ Opened("loop", before_loop(ctx))
DeepLabelOpen == CanEmitDeep /\ Opened("label", before_label(ctx))
DeepIfOpen == CanEmitDeep /\ Opened("if", before_if(ctx))

NextProtocol ==
  \/ ModuleOpenProtocol \/ FunctionOpen \/ FunctionClose \/ ModuleClose
  \/ Export
  \/ DeepNop
  \/ DeepBlockOpen \/ BlockClose \/ DeepLoopOpen \/ LoopClose
  \/ DeepLabelOpen \/ LabelClose \/ DeepIfOpen \/ IfClose

SpecProtocol == Init /\ [][NextProtocol]_vars

(***************************************************************************)
(* SpecExport: export events at module level and inside function bodies.   *)
(***************************************************************************)
\* An import and two functions, each exported or not.
ExportShapes ==
  {[max_memory_size |-> 0, globals |-> <<>>, imports |-> <<ImportDecl(0, 1)>>,
    functions |-> <<FunctionDecl(0, e[1]), FunctionDecl(1, e[2])>>,
    segments |-> <<>>] : e \in [1..2 -> BOOLEAN]}

ModuleOpenExport ==
  \E m \in ExportShapes : \E memlog \in log_two_u32(m.max_memory_size) :
    /\ phase = "start"
    /\ ctx' = before_module(ctx, m, memlog)
    /\ phase' = "module"
    /\ nextFn' = 0
    /\ exported' = {}
    /\ trace' = Append(trace, Event("module_open", memlog, m, 0))
    /\ UNCHANGED stack

\* after_export delivered while a function body is open.
ExportInBody ==
  \E f \in 0..(NumFunctions - 1) :
    /\ phase = "function"
    /\ ctx.module.functions[f + 1].exported
    /\ f \notin exported
    /\ ctx' = after_export(ctx, f)
    /\ exported' = exported \cup {f}
    /\ trace' = Append(trace, Event("export", f, 0, 0))
    /\ UNCHANGED <<phase, nextFn, stack>>

NextExport ==
  \/ ModuleOpenExport \/ FunctionOpen \/ FunctionClose \/ ModuleClose
  \/ Export \/ ExportInBody
  \/ Nop

SpecExport == Init /\ [][NextExport]_vars

(***************************************************************************)
(* SpecBuf: the buffer and the encoders on their own, from a buffer that   *)
(* init_output_buffer has set up with a small capacity, so that appends    *)
(* force it to grow.                                                       *)
(***************************************************************************)
InitBuf ==
  /\ \E cap \in 1..MaxInitCap :
       ctx = [ZeroContext EXCEPT !.buf = init_output_buffer(ZeroBuffer, cap)]
  /\ phase = "raw"
  /\ nextFn = 0
  /\ stack = <<>>
  /\ exported = {}
  /\ trace = <<>>

CStrings == {<<109>>, <<>>}
SegmentInputs == {[address |-> 0, size |-> 2, data |-> <<171, 205>>]}

\* One buffer call: ctx.buf becomes nb, and the call is recorded.
BufStep(nb, ev, a, b) ==
  /\ phase = "raw"
  /\ Len(trace) < MaxBufOps
  /\ ~ctx.buf.fault
  /\ ctx' = [ctx EXCEPT !.buf = nb]
  /\ trace' = Append(trace, Event(ev, a, b, 0))
  /\ UNCHANGED <<phase, nextFn, stack, exported>>

OutU8 == \E v \in {18} : BufStep(out_u8(ctx.buf, v), "out_u8", v, 0)
OutU16 == \E v \in {13330} : BufStep(out_u16(ctx.buf, v), "out_u16", v, 0)
OutU32 == \E v \in {2018915346} : BufStep(out_u32(ctx.buf, v), "out_u32", v, 0)
OutU64 ==
  \E v \in {[lo |-> 2018915346, hi |-> 305419896]} :
    BufStep(out_u64(ctx.buf, v), "out_u64", v, 0)
OutLeb128 ==
  \E v \in {300} : BufStep(out_leb128(ctx.buf, ToU32(v)), "out_leb128", v, 0)
OutCstr == \E s \in CStrings : BufStep(out_cstr(ctx.buf, s), "out_cstr", s, 0)
OutSegment ==
  \E s \in SegmentInputs : BufStep(out_segment(ctx.buf, s), "out_segment", s, 0)
OutU8At ==
  \E o \in 0..ctx.buf.size, v \in {254} :
    BufStep(out_u8_at(ctx.buf, o, v), "out_u8_at", o, v)
OutU32At ==
  \E o \in 0..ctx.buf.size, v \in {16909060} :
    BufStep(out_u32_at(ctx.buf, o, v), "out_u32_at", o, v)

NextBuf ==
  \/ OutU8 \/ OutU16 \/ OutU32 \/ OutU64 \/ OutLeb128 \/ OutCstr \/ OutSegment
  \/ OutU8At \/ OutU32At

SpecBuf == InitBuf /\ [][NextBuf]_vars

(***************************************************************************)
(* SpecLeb: out_leb128 applied once to a value of [0, 2^32).  The values   *)
(* are every value up to LebSmall and the values around each 7-bit group   *)
(* boundary, up to 2^32 - 1.                                               *)
(***************************************************************************)
LebEdgeHi == {0, 1, 31, 32, 33, 4095, 4096, 4097, 32767, 32768, 65535}
LebEdgeLo == {0, 1, 127, 128, 129, 16383, 16384, 16385, 32768, 65535}
LebValues ==
  {ToU32(n) : n \in 0..LebSmall}
    \cup {[hi |-> h, lo |-> l] : h \in LebEdgeHi, l \in LebEdgeLo}

InitLeb ==
  /\ ctx = [ZeroContext EXCEPT
              !.buf = init_output_buffer(ZeroBuffer, INITIAL_OUTPUT_BUFFER_CAPACITY)]
  /\ phase = "leb"
  /\ nextFn = 0
  /\ stack = <<>>
  /\ exported = {}
  /\ trace = <<>>

OutLeb128Value ==
  \E v \in LebValues :
    /\ phase = "leb"
    /\ trace = <<>>
    /\ ctx' = [ctx EXCEPT !.buf = out_leb128(ctx.buf, v)]
    /\ trace' = <<Event("out_leb128", v, 0, 0)>>
    /\ UNCHANGED <<phase, nextFn, stack, exported>>

NextLeb == OutLeb128Value

SpecLeb == InitLeb /\ [][NextLeb]_vars

(***************************************************************************)
(* Claims about the buffer and the encoders.                               *)
(***************************************************************************)
IsPatch(e) == e.ev \in {"out_u8_at", "out_u32_at"}

\* The bytes an append event hands to the buffer.
AppendedBytes(e) ==
  CASE e.ev = "out_u8" -> <<e.a % 256>>
    [] e.ev = "out_u16" -> <<e.a % 256, (e.a \div 256) % 256>>
    [] e.ev = "out_u32" -> LittleEndian(e.a, 4)
    [] e.ev = "out_u64" -> LittleEndian(e.a.lo, 4) \o LittleEndian(e.a.hi, 4)
    [] e.ev = "out_leb128" -> Leb128Bytes(ToU32(e.a)).data
    [] e.ev = "out_cstr" -> e.a \o <<0>>
    [] e.ev = "out_segment" -> e.a.data

\* The bytes a patch event writes at offset e.a.
PatchedBytes(e) ==
  IF e.ev = "out_u8_at" THEN <<e.b % 256>> ELSE LittleEndian(e.b, 4)

\* acc with bs written over [offset, offset + Len(bs)), its length kept.
Overwrite(acc, offset, bs) ==
  SubSeq(acc, 1, offset)
    \o SubSeq(bs, 1, Min(Len(bs), Len(acc) - offset))
    \o SubSeq(acc, offset + Len(bs) + 1, Len(acc))

\* The concatenation of the appended byte sequences in call order, each
\* patch overwriting its own range of what has been appended before it.
RECURSIVE Replay(_, _)
Replay(acc, k) ==
  IF k > Len(trace) THEN acc
  ELSE Replay(IF IsPatch(trace[k])
                THEN Overwrite(acc, trace[k].a, PatchedBytes(trace[k]))
                ELSE acc \o AppendedBytes(trace[k]),
              k + 1)

\* C2: after any sequence of appends and patches the content [0, size) is
\* the concatenation of the appended byte sequences in call order, each patch
\* having overwritten only its own range and left the length unchanged, also
\* when the buffer has grown in between.
C2_ContentIsReplay ==
  phase = "raw" =>
    /\ ~ctx.buf.fault
    /\ ctx.buf.size <= ctx.buf.capacity
    /\ Content(ctx.buf) = Replay(<<>>, 1)

\* An append, a patch of it, and an append that made the buffer grow.
C2_Witness ==
  /\ phase = "raw"
  /\ Len(trace) = 3
  /\ trace[1].ev = "out_u16"
  /\ trace[2].ev = "out_u8_at" /\ trace[2].a = 1
  /\ trace[3].ev = "out_u64"
  /\ ctx.buf.capacity >= 10
  /\ Content(ctx.buf) = <<18, 254, 18, 52, 86, 120, 120, 86, 52, 18>>

\* The value of the bytes of a variable-length unsigned integer: 7 bits per
\* byte, least-significant group first.
LebGroups(bytes) == [i \in 1..5 |-> IF i <= Len(bytes) THEN bytes[i] % 128 ELSE 0]
LebDecode(bytes) ==
  LET g == LebGroups(bytes)
  IN [lo |-> g[1] + g[2] * 128 + (g[3] % 4) * 16384,
      hi |-> (g[3] \div 4) + g[4] * 32 + (g[5] % 16) * 4096]

\* The high bit is set exactly on every byte but the last.
LebContinuation(bytes) ==
  /\ Len(bytes) >= 1
  /\ \A i \in 1..Len(bytes) : (bytes[i] >= 128) <=> (i < Len(bytes))

\* C5: for v in [0, 2^32) the bytes out_leb128(v) appends carry the high bit
\* on every byte but the last and decode, low group first, to v.
C5_LebRoundTrip ==
  (phase = "leb" /\ trace # <<>>) =>
    /\ LebContinuation(Content(ctx.buf))
    /\ LebDecode(Content(ctx.buf)) = trace[1].a

\* A value above 2^31 has been encoded.
C5_Witness ==
  /\ phase = "leb" /\ trace # <<>>
  /\ trace[1].a = [hi |-> 65535, lo |-> 65535]
  /\ Content(ctx.buf) = <<255, 255, 255, 255, 15>>

\* Bits needed to write v; one bit is needed to write 0.
BitsNeeded(v) == IF v.hi # 0 THEN 16 + BitLen(v.hi) ELSE Max(1, BitLen(v.lo))

\* C6: out_leb128(v) appends ceil(bits_needed(v)/7) bytes, one byte for
\* v < 128 and never more than 5, and assert(i < 5) holds throughout.
C6_LebLength ==
  (phase = "leb" /\ trace # <<>>) =>
    LET v == trace[1].a
    IN /\ ~ctx.buf.fault
       /\ ctx.buf.size = (BitsNeeded(v) + 6) \div 7
       /\ (v.hi = 0 /\ v.lo < 128) => ctx.buf.size = 1
       /\ ctx.buf.size <= 5

\* A value of 29 bits has been encoded in five bytes.
C6_Witness ==
  /\ phase = "leb" /\ trace # <<>>
  /\ trace[1].a = [hi |-> 4096, lo |-> 0]
  /\ ctx.buf.size = 5

(***************************************************************************)
(* Literal events.                                                         *)
(***************************************************************************)
\* Byte j (from 0) of the two's complement representation of v.
TwosByte(v, j) == (v \div (256 ^ j)) % 256
Word(v) == <<TwosByte(v, 0), TwosByte(v, 1), TwosByte(v, 2), TwosByte(v, 3)>>

\* The bytes [from, to) of the buffer.
Bytes(from, to) == SubSeq(ctx.buf.mem, from + 1, to)

\* C7: a signed 32-bit literal v is emitted as I8_CONST and the one byte
\* v mod 256 exactly when -128 <= v < 127, and otherwise as the event's
\* opcode and the four bytes of v (so -128 is compact and 127 is not); a
\* 64-bit or floating literal is always the event's opcode and the value at
\* its full width.
C7_ConstBoundary ==
  \A k \in DOMAIN trace :
    trace[k].ev = "const" =>
      LET v == trace[k].b.value
          type == trace[k].b.type
          emitted == Bytes(trace[k].a, trace[k].c)
      IN /\ ~ctx.buf.fault
         /\ type = WASM_TYPE_I32 =>
              /\ (-128 <= v /\ v < 127) <=> (emitted[1] = WASM_OPCODE_I8_CONST)
              /\ (-128 <= v /\ v < 127) => emitted = <<WASM_OPCODE_I8_CONST, v % 256>>
              /\ ~(-128 <= v /\ v < 127) =>
                   emitted = <<WASM_OPCODE_I32_CONST>> \o Word(v)
              /\ v = -128 => Len(emitted) = 2
              /\ v = 127 => Len(emitted) = 5
         /\ type = WASM_TYPE_I64 =>
              emitted = <<WASM_OPCODE_I64_CONST>> \o Word(v.lo) \o Word(v.hi)
         /\ type = WASM_TYPE_F32 => emitted = <<WASM_OPCODE_F32_CONST>> \o Word(v)
         /\ type = WASM_TYPE_F64 =>
              emitted = <<WASM_OPCODE_F64_CONST>> \o Word(v.lo) \o Word(v.hi)

\* The literals -128, 127 and the 64-bit 5 have been emitted in a row.
C7_Witness ==
  /\ Len(trace) = 5
  /\ \A k \in 3..5 : trace[k].ev = "const"
  /\ trace[3].b.type = WASM_TYPE_I32 /\ trace[3].b.value = -128
  /\ trace[4].b.type = WASM_TYPE_I32 /\ trace[4].b.value = 127
  /\ trace[5].b.type = WASM_TYPE_I64 /\ trace[5].b.value = [lo |-> 5, hi |-> 0]
  /\ Bytes(trace[3].a, ctx.buf.size)
       = <<9, 128, 10, 127, 0, 0, 0, 11, 5, 0, 0, 0, 0, 0, 0, 0>>

(***************************************************************************)
(* The layout planner.                                                     *)
(***************************************************************************)
\* The sum of 24 + a over the argument counts a of a list of headers.
RECURSIVE HeaderBytes(_)
HeaderBytes(counts) ==
  IF counts = <<>> THEN 0 ELSE 24 + Head(counts) + HeaderBytes(Tail(counts))

ImportArgCounts ==
  [j \in DOMAIN ctx.module.imports |-> Len(ctx.module.imports[j].args)]
FunctionArgCounts ==
  [i \in DOMAIN ctx.module.functions |-> ctx.module.functions[i].num_args]

\* Where the header of declared function i (from 1) starts.
FunctionHeaderAt(i) ==
  8 + 6 * Len(ctx.module.globals) + HeaderBytes(ImportArgCounts)
    + HeaderBytes(SubSeq(FunctionArgCounts, 1, i - 1))

\* C3: from module_open on, whatever events follow, function_header_offsets[i]
\* is 8 + 6*G + the sum of 24 + a_j over all imports + the sum of 24 + b_k
\* over the declared functions before i, and segment_header_offsets[s] is the
\* offset just past the last function header + 13*s.
C3_HeaderOffsets ==
  phase # "start" =>
    LET F == Len(ctx.module.functions)
        S == Len(ctx.module.segments)
    IN /\ Len(ctx.function_header_offsets) = F
       /\ \A i \in 1..F : ctx.function_header_offsets[i] = FunctionHeaderAt(i)
       /\ Len(ctx.segment_header_offsets) = S
       /\ \A n \in 1..S :
            ctx.segment_header_offsets[n] = FunctionHeaderAt(F + 1) + 13 * (n - 1)

\* Two globals, two imports, two functions and two segments, after a body
\* with an expression has been emitted and the module closed.
C3_Witness ==
  /\ phase = "done"
  /\ Len(ctx.module.globals) = 2 /\ Len(ctx.module.imports) = 2
  /\ \E k \in DOMAIN trace : trace[k].ev = "nop"
  /\ ctx.function_header_offsets = <<71, 95>>
  /\ ctx.segment_header_offsets = <<120, 133>>

(***************************************************************************)
(* The tail: segment payloads, then the name table.                        *)
(***************************************************************************)
\* The fields of the headers as they stand in the buffer.
SegmentDataOffset(n) == U32At(ctx.buf, ctx.segment_header_offsets[n] + 4)
SegmentSizeField(n) == U32At(ctx.buf, ctx.segment_header_offsets[n] + 8)
FunctionField(i, k) ==
  U32At(ctx.buf, FunctionHeaderAt(i) + 2 + ctx.module.functions[i].num_args + k)

\* Where the name field of import j (from 1) is.
ImportNameField(j) ==
  8 + 6 * Len(ctx.module.globals)
    + HeaderBytes(SubSeq(ImportArgCounts, 1, j - 1)) + 2 + ImportArgCounts[j]

\* The buffer length when module_close arrived: the end of the last body.
BodiesEnd == trace[Len(trace)].a

RECURSIVE PayloadBytes(_)
PayloadBytes(segments) ==
  IF segments = <<>> THEN 0
  ELSE Head(segments).size + PayloadBytes(Tail(segments))

\* Where the name table starts: past the last payload.
NamesStart == BodiesEnd + PayloadBytes(ctx.module.segments)

\* C8: after module_close every segment's size field is its size, its data
\* offset is at or after the end of every function body, the bytes there are
\* its payload, the payloads are contiguous in declaration order, and they
\* precede the name table.
C8_SegmentTail ==
  phase = "done" =>
    LET segments == ctx.module.segments
    IN \A n \in 1..Len(segments) :
         LET d == SegmentDataOffset(n)
         IN /\ SegmentSizeField(n) = segments[n].size
            /\ d >= BodiesEnd
            /\ \A i \in 1..NumFunctions : FunctionField(i, 8) <= d
            /\ Bytes(d, d + segments[n].size) = segments[n].data
            /\ n < Len(segments) => SegmentDataOffset(n + 1) = d + segments[n].size
            /\ n = 1 => d = BodiesEnd
            /\ \A j \in 1..Len(ctx.module.imports) :
                 U32At(ctx.buf, ImportNameField(j)) >= d + segments[n].size
            /\ \A i \in 1..NumFunctions :
                 ctx.module.functions[i].exported =>
                   FunctionField(i, 0) >= d + segments[n].size

\* Two segments behind a function body and in front of two names.
C8_Witness ==
  /\ phase = "done"
  /\ Len(ctx.module.segments) = 2
  /\ ctx.module.imports # <<>>
  /\ NumFunctions = 1 /\ ctx.module.functions[1].exported
  /\ FunctionField(1, 8) = FunctionField(1, 4) + 3
  /\ SegmentDataOffset(1) = FunctionField(1, 8)
  /\ SegmentDataOffset(2) = SegmentDataOffset(1) + 4
  /\ Bytes(SegmentDataOffset(1), SegmentDataOffset(1) + 6) = <<1, 2, 3, 4, 170, 187>>
  /\ FunctionField(1, 0) > SegmentDataOffset(2) + 2

\* The names of the tail in order: every import, then the exported functions.
NamedEntries ==
  [j \in DOMAIN ctx.module.imports |->
     [field |-> ImportNameField(j), name |-> ctx.module.imports[j].func_name]]
  \o [i \in 1..Cardinality({k \in 1..NumFunctions : ctx.module.functions[k].exported}) |->
        LET f == CHOOSE k \in 1..NumFunctions :
                   /\ ctx.module.functions[k].exported
                   /\ Cardinality({l \in 1..k : ctx.module.functions[l].exported}) = i
        IN [field |-> FunctionHeaderAt(f) + 2 + ctx.module.functions[f].num_args,
            name |-> ctx.module.functions[f].exported_name]]

\* Entry k and the ones after it lie at offset at and on, each name followed
\* by one zero byte, and the buffer ends with the last of them.
RECURSIVE NamesLaidOut(_, _, _)
NamesLaidOut(entries, k, at) ==
  IF k > Len(entries) THEN at = ctx.buf.size
  ELSE /\ U32At(ctx.buf, entries[k].field) = at
       /\ at + Len(entries[k].name) + 1 <= ctx.buf.size
       /\ Bytes(at, at + Len(entries[k].name) + 1) = entries[k].name \o <<0>>
       /\ NamesLaidOut(entries, k + 1, at + Len(entries[k].name) + 1)

\* C9: after module_close the tail past the payloads is the names of the
\* imports and then of the exported functions, in declaration order, each
\* followed by one zero byte and each at the offset its header's name field
\* holds; a function that is not exported has no bytes there and its name
\* field is 0.
C9_NameTable ==
  phase = "done" =>
    /\ NamesLaidOut(NamedEntries, 1, NamesStart)
    /\ \A i \in 1..NumFunctions :
         ~ctx.module.functions[i].exported => FunctionField(i, 0) = 0

\* Two imports, a function that is not exported and an exported one.
C9_Witness ==
  /\ phase = "done"
  /\ Len(ctx.module.imports) = 2
  /\ NumFunctions = 2
  /\ ~ctx.module.functions[1].exported /\ ctx.module.functions[2].exported
  /\ FunctionField(1, 0) = 0
  /\ U32At(ctx.buf, ImportNameField(1)) = NamesStart
  /\ U32At(ctx.buf, ImportNameField(2)) = NamesStart + 3
  /\ FunctionField(2, 0) = NamesStart + 6
  /\ Bytes(NamesStart, ctx.buf.size) = <<105, 48, 0, 105, 49, 0, 102, 49, 0>>

(***************************************************************************)
(* The scenario of one exported function "main" whose body is one no-op.   *)
(***************************************************************************)
MainOnly ==
  [max_memory_size |-> 0, globals |-> <<>>, imports |-> <<>>,
   functions |-> <<[num_args |-> 0, locals |-> <<>>, result_type |-> WASM_TYPE_VOID,
                    exported |-> TRUE, exported_name |-> <<109, 97, 105, 110>>]>>,
   segments |-> <<>>]

\* module_open, function_open, nop, function_close(1), export, module_close.
ScenarioDone ==
  /\ phase = "done"
  /\ ctx.module = MainOnly
  /\ [k \in DOMAIN trace |-> trace[k].ev]
       = <<"module_open", "function_open", "nop", "function_close", "export",
           "module_close">>
  /\ trace[4].b = 1

\* The header and the tail of the scenario's output.
ScenarioRest ==
  /\ ByteAt(ctx.buf, 8 + 2 + 20) = 1
  /\ Bytes(U32At(ctx.buf, 8 + 2 + 4), U32At(ctx.buf, 8 + 2 + 8)) = <<1, 1, 0>>
  /\ Bytes(U32At(ctx.buf, 8 + 2 + 0), ctx.buf.size) = <<109, 97, 105, 110, 0>>
  /\ U32At(ctx.buf, 8 + 2 + 0) >= U32At(ctx.buf, 8 + 2 + 8)

\* C10 as stated: the scenario's output begins with the bytes 0,1,0,1,0,0,
\* and its one function header has export flag 1, code-start and code-end
\* around BLOCK, 1, NOP, and a name offset at 'm','a','i','n',0 in the tail.
C10_ScenarioAsStated ==
  ScenarioDone =>
    /\ Bytes(0, 6) = <<0, 1, 0, 1, 0, 0>>
    /\ ScenarioRest

\* C10: the scenario's preamble is the eight bytes 0,1,0,0,1,0,0,0 (two
\* single bytes and three 16-bit counts), the one function header follows it
\* at offset 8, and the header and the tail are as stated.
C10_Scenario ==
  ScenarioDone =>
    /\ Bytes(0, 8) = <<0, 1, 0, 0, 1, 0, 0, 0>>
    /\ ctx.function_header_offsets = <<8>>
    /\ ScenarioRest

\* The scenario has run to its end: forty bytes.
C10_Witness ==
  /\ ScenarioDone
  /\ ctx.buf.size = 40
  /\ Bytes(32, 40) = <<1, 1, 0, 109, 97, 105, 110, 0>>

(***************************************************************************)
(* Counted regions: blocks, loops, labels and function bodies.             *)
(***************************************************************************)
RegionOpens == {"block_open", "loop_open", "label_open", "if_open"}
RegionCloses == {"block_close", "loop_close", "label_close", "if_close"}
CountedCloses == {"block_close", "loop_close", "label_close"}

\* The expressions one event stands for.
Expressions(e) ==
  IF e.ev = "nops" THEN e.a ELSE IF e.ev \in ExprEvents THEN 1 ELSE 0

\* The top-level expressions among the events j .. c - 1, event j being
\* depth regions deep below the region counted.
RECURSIVE TopLevelCount(_, _, _)
TopLevelCount(j, c, depth) ==
  IF j >= c THEN 0
  ELSE (IF depth = 0 THEN Expressions(trace[j]) ELSE 0)
         + TopLevelCount(j + 1, c,
             IF trace[j].ev \in RegionOpens THEN depth + 1
             ELSE IF trace[j].ev \in RegionCloses THEN depth - 1
             ELSE depth)

\* The open event whose handle close event k was given.
OpenOf(k) ==
  CHOOSE o \in 1..(k - 1) :
    /\ trace[o].ev \in RegionOpens
    /\ trace[o].a = trace[k].a
    /\ TopLevelCount(o + 1, k, 0) = trace[k].b

\* C1: after a block, loop or label has been closed with the handle of its
\* open and its number of top-level expressions, the byte at the handle is
\* that number, whatever the depth and the number, and stays so when other
\* regions are closed; the placeholder of a region still open is untouched.
C1_Backpatch ==
  /\ \A k \in DOMAIN trace :
       trace[k].ev \in CountedCloses =>
         /\ \E o \in 1..(k - 1) :
              /\ trace[o].ev \in RegionOpens
              /\ trace[o].a = trace[k].a
              /\ TopLevelCount(o + 1, k, 0) = trace[k].b
         /\ ByteAt(ctx.buf, trace[k].a) = TopLevelCount(OpenOf(k) + 1, k, 0)
  /\ \A d \in 2..Len(stack) :
       stack[d].kind \in {"block", "loop", "label"} =>
         ByteAt(ctx.buf, stack[d].cookie) = 0

\* The function_open event of function f.
FunctionOpenOf(f) ==
  CHOOSE o \in DOMAIN trace : trace[o].ev = "function_open" /\ trace[o].a = f

ClosedFunctions == {k \in DOMAIN trace : trace[k].ev = "function_close"}

\* C4: once a function is closed, its header's code-start field is the
\* buffer length at its function_open and its code-end field the length at
\* its function_close, the byte at code-start is BLOCK and the next byte is
\* the expression count given to function_close, whatever regions the body
\* nests; the functions' [code-start, code-end) ranges follow one another
\* without overlap.
C4_Bracketing ==
  /\ \A k \in ClosedFunctions :
       LET f == trace[k].a
           o == FunctionOpenOf(f)
       IN /\ FunctionField(f + 1, 4) = trace[o].b
          /\ FunctionField(f + 1, 8) = trace[k].c
          /\ trace[o].b < trace[k].c
          /\ ByteAt(ctx.buf, trace[o].b) = WASM_OPCODE_BLOCK
          /\ trace[k].b = TopLevelCount(o + 1, k, 0)
          /\ ByteAt(ctx.buf, trace[o].b + 1) = trace[k].b
  /\ \A k, l \in ClosedFunctions :
       trace[k].a < trace[l].a =>
         FunctionField(trace[k].a + 1, 8) <= FunctionField(trace[l].a + 1, 4)

(***************************************************************************)
(* Reuse of the engine.                                                    *)
(***************************************************************************)
\* The handler the recorded event e stands for, run on context c.
Handle(c, e) ==
  CASE e.ev = "module_open" -> before_module(c, e.b, e.a)
    [] e.ev = "module_close" -> after_module(c)
    [] e.ev = "function_open" -> before_function(c, e.a)
    [] e.ev = "function_close" -> after_function(c, e.a, e.b)
    [] e.ev = "export" -> after_export(c, e.a)
    [] e.ev = "nop" -> after_nop(c)
    [] e.ev = "nops" -> NopTimes(c, e.a)
    [] e.ev = "block_open" -> before_block(c).ctx
    [] e.ev = "loop_open" -> before_loop(c).ctx
    [] e.ev = "label_open" -> before_label(c).ctx
    [] e.ev = "if_open" -> before_if(c).ctx
    [] e.ev = "block_close" -> after_block(c, e.b, e.a)
    [] e.ev = "loop_close" -> after_loop(c, e.b, e.a)
    [] e.ev = "label_close" -> after_label(c, e.b, e.a)
    [] e.ev = "if_close" -> after_if(c, e.c = 1, e.a)

\* The events k, k + 1, ... of the sequence events run on context c.
RECURSIVE Run(_, _, _)
Run(c, events, k) ==
  IF c.buf.fault \/ k > Len(events) THEN c
  ELSE Run(Handle(c, events[k]), events, k + 1)

\* The last module_open recorded.
LastOpen ==
  CHOOSE k \in DOMAIN trace :
    /\ trace[k].ev = "module_open"
    /\ \A l \in (k + 1)..Len(trace) : trace[l].ev # "module_open"

\* The last cycle run alone on a fresh engine.
Alone == Run(ZeroContext, SubSeq(trace, LastOpen, Len(trace)), 1)

\* C11: when a module cycle B has run on an engine that an earlier cycle A
\* has used, the content and the length of the buffer and both offset
\* tables after B's module_close are those of B run alone on a fresh engine.
C11_Reuse ==
  (phase = "done" /\ ModulesOpened > 1) =>
    /\ ~ctx.buf.fault
    /\ ctx.buf.size = Alone.buf.size
    /\ Content(ctx.buf) = Content(Alone.buf)
    /\ ctx.function_header_offsets = Alone.function_header_offsets
    /\ ctx.segment_header_offsets = Alone.segment_header_offsets

\* A cycle with an import, a segment and an exported function with a body
\* has been followed by a cycle of a module of two other functions, the
\* second of them with a body.
C11_Witness ==
  /\ phase = "done"
  /\ ModulesOpened = 2
  /\ trace[1].b.imports # <<>> /\ trace[3].ev = "nop"
  /\ Len(ctx.module.functions) = 2 /\ ctx.module.imports = <<>>
  /\ trace[Len(trace) - 2].ev = "nop"
  /\ ctx.function_header_offsets = <<8, 32>>
  /\ ctx.buf.size = 8 + 24 + 25 + 2 + 3

(***************************************************************************)
(* Export events.                                                          *)
(***************************************************************************)
\* The step has delivered one event of kind ev.
Delivered(ev) ==
  /\ Len(trace') = Len(trace) + 1
  /\ trace'[Len(trace')].ev = ev

\* Where the exported flag of declared function f (from 0) is.
ExportedFlagAt(f) ==
  FunctionHeaderAt(f + 1) + 2 + ctx.module.functions[f + 1].num_args + 20

\* The export events of the functions in S, in the order of the functions.
RECURSIVE ExportsInOrder(_)
ExportsInOrder(S) ==
  IF S = {} THEN <<>>
  ELSE LET f == CHOOSE x \in S : \A y \in S : x <= y
       IN <<Event("export", f, 0, 0)>> \o ExportsInOrder(S \ {f})

IsNoExport(e) == e.ev # "export"

\* The recorded events with every export moved right behind module_open.
ExportsFirst ==
  LET others == SelectSeq(trace, IsNoExport)
  IN <<others[1]>> \o ExportsInOrder(exported) \o Tail(others)

\* C12: an export event sets the one byte at header offset + 2 + num_args
\* + 20 of its function to 1 and changes neither the length nor any other
\* byte; and wherever the export events came between module_open and
\* module_close, the final buffer is the one obtained by delivering them
\* all right after module_open.
C12_ExportOrder ==
  /\ [][Delivered("export") =>
          LET f == trace'[Len(trace')].a
          IN /\ ExportedFlagAt(f) < ctx.buf.size
             /\ ByteAt(ctx.buf, ExportedFlagAt(f)) = 0
             /\ ctx'.buf = [ctx.buf EXCEPT !.mem[ExportedFlagAt(f) + 1] = 1]]_vars
  /\ [](phase = "done" =>
          LET first == Run(ZeroContext, ExportsFirst, 1)
          IN /\ ctx.buf.size = first.buf.size
             /\ Content(ctx.buf) = Content(first.buf))

\* Function 1 has been exported inside the body of function 0, and
\* function 0 after its body.
C12_Witness ==
  /\ phase = "done"
  /\ exported = {0, 1}
  /\ [k \in 1..6 |-> trace[k].ev]
       = <<"module_open", "function_open", "nop", "export", "function_close",
           "export">>
  /\ trace[4].a = 1 /\ trace[6].a = 0
  /\ ByteAt(ctx.buf, ExportedFlagAt(0)) = 1
  /\ ByteAt(ctx.buf, ExportedFlagAt(1)) = 1

(***************************************************************************)
(* Conditionals.                                                           *)
(***************************************************************************)
\* The event the step has delivered.
Last == trace'[Len(trace')]

\* C13: a conditional's open appends the one byte IF and hands out the
\* offset of that byte; its close with an alternate overwrites exactly that
\* byte with IF_THEN, and without one leaves the whole buffer as it is; the
\* close never changes the length, whatever regions were opened and closed
\* in between, and the byte stays as the close left it.
C13_ConditionalPatch ==
  /\ [][/\ Delivered("if_open") =>
             /\ Last.a = ctx.buf.size
             /\ ctx'.buf.size = ctx.buf.size + 1
             /\ Content(ctx'.buf) = Content(ctx.buf) \o <<WASM_OPCODE_IF>>
        /\ Delivered("if_close") =>
             /\ ctx'.buf.size = ctx.buf.size
             /\ ByteAt(ctx.buf, Last.a) = WASM_OPCODE_IF
             /\ Last.c = 1 =>
                  ctx'.buf = [ctx.buf EXCEPT !.mem[Last.a + 1] = WASM_OPCODE_IF_THEN]
             /\ Last.c = 0 => ctx'.buf = ctx.buf]_vars
  /\ [](\A k \in DOMAIN trace :
          trace[k].ev = "if_close" =>
            ByteAt(ctx.buf, trace[k].a)
              = IF trace[k].c = 1 THEN WASM_OPCODE_IF_THEN ELSE WASM_OPCODE_IF)

\* A conditional with an alternate, one of its three parts a block, has
\* been closed and the module finished.
C13_Witness ==
  /\ phase = "done"
  /\ Len(trace) >= 8
  /\ [k \in 3..8 |-> trace[k].ev]
       = [k \in 3..8 |-> <<"if_open", "nop", "block_open", "block_close", "nop",
                           "if_close">>[k - 2]]
  /\ trace[8].c = 1 /\ trace[8].a = trace[3].a
  /\ Bytes(trace[3].a, trace[3].a + 5) = <<4, 0, 1, 0, 0>>

(***************************************************************************)
(* Branches and calls.                                                     *)
(***************************************************************************)
\* C14: every branch event of depth d has appended the BREAK opcode and then
\* the bytes the variable-length writer produces for d.
C14_BreakDepthVarint ==
  \A k \in DOMAIN trace :
    trace[k].ev = "break" =>
      Bytes(trace[k].b, trace[k].c)
        = <<WASM_OPCODE_BREAK>> \o Leb128Bytes(ToU32(trace[k].a)).data

\* Where the header at position p (from 0) of the import-then-function
\* header sequence starts.
CombinedHeaderAt(p) ==
  8 + 6 * Len(ctx.module.globals)
    + HeaderBytes(SubSeq(ImportArgCounts \o FunctionArgCounts, 1, p))

\* The operand a call event has appended, decoded low group first.
CallOperand(e) == LebDecode(Bytes(e.b + 1, e.c))

\* C15: a call to declared function f has appended CALL and the
\* variable-length encoding of import count + f, a call to import i CALL and
\* the encoding of i; the operand is the position of the callee's header
\* among the import headers followed by the function headers, and no
\* declared-function call has the operand of an import call.
C15_CallIndex ==
  LET n == Len(ctx.module.imports)
      calls == {k \in DOMAIN trace : trace[k].ev = "call"}
      icalls == {k \in DOMAIN trace : trace[k].ev = "call_import"}
  IN /\ ~ctx.buf.fault
     /\ \A k \in calls \cup icalls :
          /\ trace[k].c > trace[k].b + 1
          /\ ByteAt(ctx.buf, trace[k].b) = WASM_OPCODE_CALL
          /\ LebContinuation(Bytes(trace[k].b + 1, trace[k].c))
          /\ CallOperand(trace[k]).hi = 0
     /\ \A k \in calls :
          /\ CallOperand(trace[k]).lo = n + trace[k].a
          /\ CombinedHeaderAt(CallOperand(trace[k]).lo)
               = ctx.function_header_offsets[trace[k].a + 1]
     /\ \A k \in icalls :
          /\ CallOperand(trace[k]).lo = trace[k].a
          /\ CombinedHeaderAt(CallOperand(trace[k]).lo) + 2 + ImportArgCounts[trace[k].a + 1]
               = ImportNameField(trace[k].a + 1)
     /\ \A k \in calls : \A j \in icalls : CallOperand(trace[k]) # CallOperand(trace[j])

\* On the module of ManyImports imports the last import and the second
\* declared function have been called, the function with the operand
\* ManyImports + 1.
C15_Witness ==
  /\ phase = "done"
  /\ Len(ctx.module.imports) = ManyImports
  /\ \E i, k \in DOMAIN trace :
       /\ trace[i].ev = "call_import" /\ trace[i].a = ManyImports - 1
       /\ trace[k].ev = "call" /\ trace[k].a = 1
       /\ Bytes(trace[k].b, trace[k].c)
            = <<WASM_OPCODE_CALL, ManyImports + 1>>

(***************************************************************************)
(* The output file.                                                        *)
(***************************************************************************)
\* What the target file holds of this run: the bytes of the recorded
\* write_output_buffer call, nothing before it.
Sink ==
  IF trace # <<>> /\ trace[Len(trace)].ev = "write_output"
  THEN trace[Len(trace)].a.bytes ELSE <<>>

\* C16: when the run has ended in a failure (a parse error, a failed
\* allocation, a flush that could not be completed) the target holds no
\* output of the run, and whenever it holds bytes the traversal succeeded
\* and they are the whole of buffer[0, size).
C16_NoPartialOutput ==
  /\ phase \in {"fatal", "error"} => Sink = <<>>
  /\ Sink # <<>> => phase = "written" /\ Sink = Content(ctx.buf)

(***************************************************************************)
(* The buffer's capacity.                                                  *)
(***************************************************************************)
\* The indices (from 1) the delivered call overwrites below the old size:
\* those of a patch, none for an append or a segment copy.
Overwritten ==
  IF Last.ev = "out_u8_at" THEN (Last.a + 1)..(Last.a + 1)
  ELSE IF Last.ev = "out_u32_at" THEN (Last.a + 1)..(Last.a + 4)
  ELSE {}

\* C17: size <= capacity and no byte is stored past the capacity, in every
\* state from the initialised buffer on; no call lowers the capacity; and a
\* call that grows the storage, be it an append, a patch or a segment copy,
\* leaves every byte below the old size as it was, but for the bytes a patch
\* itself overwrites.
C17_BufferInvariant ==
  /\ [](/\ ctx.buf.size <= ctx.buf.capacity
        /\ Len(ctx.buf.mem) <= ctx.buf.capacity)
  /\ [][/\ ctx'.buf.capacity >= ctx.buf.capacity
        /\ ctx'.buf.capacity > ctx.buf.capacity =>
             /\ Len(trace') = Len(trace) + 1
             /\ Len(ctx'.buf.mem) >= ctx.buf.size
             /\ \A i \in 1..ctx.buf.size :
                  i \notin Overwritten => ctx'.buf.mem[i] = ctx.buf.mem[i]]_vars

\* From capacity 1, one byte appended, then a four-byte patch at offset 1
\* has grown the storage to 8 with the size still 1; then a segment copy.
C17_Witness ==
  /\ phase = "raw"
  /\ Len(trace) = 3
  /\ trace[1].ev = "out_u8" /\ trace[2].ev = "out_u32_at" /\ trace[2].a = 1
  /\ trace[3].ev = "out_segment"
  /\ ctx.buf.capacity = 8 /\ ctx.buf.size = 3
  /\ ctx.buf.mem = <<18, 171, 205, 2, 1>>

(***************************************************************************)
(* Patches under the event protocol.                                       *)
(***************************************************************************)
\* C18: under the event protocol no patch, be it a count, a conditional's
\* opcode, a code-start or code-end field, an export flag, a data-offset or
\* a name-offset, has started past the buffer's length (the assert of
\* out_data has held) or stored a byte at or past it.
C18_PatchPrecondition ==
  /\ ~ctx.buf.fault
  /\ ~ctx.buf.overrun
  /\ Len(ctx.buf.mem) = ctx.buf.size

\* A module with an import, a segment and an exported function whose body
\* holds an empty block and a conditional with an alternate is finished.
C18_Witness ==
  /\ phase = "done"
  /\ ctx.module.functions[1].exported
  /\ \E i, j, k \in DOMAIN trace :
       /\ trace[i].ev = "block_close" /\ trace[i].b = 0
       /\ trace[j].ev = "if_close" /\ trace[j].c = 1
       /\ trace[k].ev = "export"

\* The capacity the delivered call has asked for: the end of its write.
Requested ==
  IF Last.ev = "out_u8_at" THEN Last.a + 1
  ELSE IF Last.ev = "out_u32_at" THEN Last.a + 4
  ELSE IF Last.ev = "out_segment" THEN ctx.buf.size + Last.a.size
  ELSE ctx'.buf.size

\* new is the smallest capacity * 2^k, k >= 1, that is >= request.
SmallestDoubling(capacity, request, new) ==
  \E k \in 1..(BitLen(request) + 1) :
    /\ new = capacity * Pow2(k)
    /\ new >= request
    /\ k = 1 \/ capacity * Pow2(k - 1) < request

\* C19: from a buffer of positive capacity every call returns; when the
\* capacity it asks for exceeds the capacity, the new capacity is the
\* smallest capacity * 2^k with k >= 1 that is at least what was asked for,
\* and otherwise the capacity is unchanged.
C19_GrowthStep ==
  /\ [](ctx.buf.capacity > 0)
  /\ [][Len(trace') = Len(trace) + 1 =>
          IF Requested > ctx.buf.capacity
            THEN SmallestDoubling(ctx.buf.capacity, Requested, ctx'.buf.capacity)
            ELSE ctx'.buf.capacity = ctx.buf.capacity]_vars

\* Eight bytes appended have grown the storage to 8 by more than one
\* doubling, a patch has left it at 8, and one more byte has doubled it.
C19_Witness ==
  /\ phase = "raw"
  /\ Len(trace) = 3
  /\ trace[1].ev = "out_u64" /\ trace[2].ev = "out_u8_at" /\ trace[3].ev = "out_u8"
  /\ ctx.buf.size = 9
  /\ ctx.buf.capacity = 16

(***************************************************************************)
(* The offset tables.                                                      *)
(***************************************************************************)
\* C20: once module_open has returned, no event up to and including
\* module_close (function open and close, export, region open and close,
\* leaf events, the footer) changes function_header_offsets or
\* segment_header_offsets.
C20_TablesReadOnly ==
  [][phase # "start" =>
       /\ ctx'.function_header_offsets = ctx.function_header_offsets
       /\ ctx'.segment_header_offsets = ctx.segment_header_offsets]_vars

\* A module with an exported function whose body held a loop and a
\* conditional is finished, both tables as module_open planned them.
C20_Witness ==
  /\ phase = "done"
  /\ ctx.function_header_offsets = <<46>>
  /\ ctx.segment_header_offsets = <<70>>
  /\ \E i, j, k \in DOMAIN trace :
       /\ trace[i].ev = "loop_close"
       /\ trace[j].ev = "if_close"
       /\ trace[k].ev = "export"

(***************************************************************************)
(* The width of the count placeholder.                                     *)
(***************************************************************************)
CountedOpens == {"block_open", "loop_open", "label_open"}

\* C22: the placeholder of a block, loop, label or function body is one
\* byte: a region opened right behind another's placeholder has its opcode
\* in the very next byte and keeps it; after the close the byte at the
\* captured offset is the expression count mod 256, hence the count itself
\* exactly when the count is in 0..255, and no error is raised for a wider
\* count.
C22_CountWidth ==
  /\ ~ctx.buf.fault
  /\ \A o \in DOMAIN trace :
       (/\ trace[o].ev \in CountedOpens \cup {"function_open"}
        /\ o < Len(trace)
        /\ trace[o + 1].ev \in CountedOpens) =>
         LET at == IF trace[o].ev = "function_open" THEN trace[o].b + 1 ELSE trace[o].a
         IN /\ trace[o + 1].a = at + 2
            /\ ByteAt(ctx.buf, at + 1)
                 = IF trace[o + 1].ev = "loop_open" THEN WASM_OPCODE_LOOP
                   ELSE WASM_OPCODE_BLOCK
  /\ \A k \in DOMAIN trace :
       /\ trace[k].ev \in CountedCloses =>
            /\ ByteAt(ctx.buf, trace[k].a) = trace[k].b % 256
            /\ (ByteAt(ctx.buf, trace[k].a) = trace[k].b) <=> (trace[k].b \in 0..255)
       /\ trace[k].ev = "function_close" =>
            LET at == trace[FunctionOpenOf(trace[k].a)].b + 1
            IN /\ ByteAt(ctx.buf, at) = trace[k].b % 256
               /\ (ByteAt(ctx.buf, at) = trace[k].b) <=> (trace[k].b \in 0..255)

\* A block of WideRun + 1 expressions has been closed and its count byte is
\* the count less 256; the module is finished.
C22_Witness ==
  /\ phase = "done"
  /\ \E k \in DOMAIN trace :
       /\ trace[k].ev = "block_close"
       /\ trace[k].b = WideRun + 1
       /\ ByteAt(ctx.buf, trace[k].a) = WideRun + 1 - 256

(***************************************************************************)
(* The planned layout against the emitted one.                             *)
(***************************************************************************)
\* The buffer out_module_header leaves when it is given the module cut
\* after its first i imports, f functions and s segments: its size is the
\* offset at which the next header record is written.
HeaderThrough(i, f, s) ==
  out_module_header(
    init_output_buffer(ZeroBuffer, INITIAL_OUTPUT_BUFFER_CAPACITY),
    [ctx.module EXCEPT !.imports = SubSeq(@, 1, i),
                       !.functions = SubSeq(@, 1, f),
                       !.segments = SubSeq(@, 1, s)],
    ByteAt(ctx.buf, 0))

NumImports == Len(ctx.module.imports)
NumSegments == Len(ctx.module.segments)
EmittedImportAt(j) == HeaderThrough(j - 1, 0, 0).size
EmittedFunctionAt(i) == HeaderThrough(NumImports, i - 1, 0).size
EmittedSegmentAt(s) == HeaderThrough(NumImports, NumFunctions, s - 1).size
\* The buffer as module_open left it.
AtModuleOpen == HeaderThrough(NumImports, NumFunctions, NumSegments)

\* The end of the last header record, from the tables.
PlannedEnd ==
  IF NumSegments > 0
    THEN ctx.segment_header_offsets[NumSegments] + SEGMENT_HEADER_SIZE
  ELSE IF NumFunctions > 0
    THEN ctx.function_header_offsets[NumFunctions]
           + FUNC_HEADER_SIZE(ctx.module.functions[NumFunctions].num_args)
  ELSE EmittedImportAt(NumImports + 1)

\* The offsets of the header bytes that events patch: the import name
\* fields, the functions' name, code-start and code-end fields and export
\* flags, the segments' data-offset fields.
PatchedFields ==
  UNION {{EmittedImportAt(j) + FUNC_HEADER_NAME_OFFSET(ImportArgCounts[j]) + d : d \in 0..3} :
           j \in 1..NumImports}
    \cup UNION {{ctx.function_header_offsets[i] + FUNC_SIG_SIZE(FunctionArgCounts[i]) + d :
                   d \in 0..11 \cup {20}} : i \in 1..NumFunctions}
    \cup UNION {{ctx.segment_header_offsets[s] + SEGMENT_HEADER_DATA_OFFSET + d : d \in 0..3} :
                  s \in 1..NumSegments}

\* The string s and its terminating zero lie at the offset the field at
\* offset field holds.
NameFieldPointsAt(field, s) ==
  LET at == U32At(ctx.buf, field)
  IN /\ at >= PlannedEnd
     /\ at + Len(s) + 1 <= ctx.buf.size
     /\ Bytes(at, at + Len(s) + 1) = s \o <<0>>

\* C21: from module_open on, function_header_offsets[i] is the offset at
\* which out_module_header wrote the first byte of function i's header and
\* segment_header_offsets[s] that of segment s's header; right after
\* module_open the buffer ends with the last header record; the running
\* offset of out_module_footer meets the table at every function; every
\* patch lands on the field it names (code start, code end, export flag,
\* name offset, data offset), and every other header byte keeps the value
\* module_open wrote.
C21_PlannedIsEmitted ==
  phase # "start" =>
    /\ ~ctx.buf.fault
    /\ Len(ctx.function_header_offsets) = NumFunctions
    /\ Len(ctx.segment_header_offsets) = NumSegments
    /\ \A i \in 1..NumFunctions : ctx.function_header_offsets[i] = EmittedFunctionAt(i)
    /\ \A s \in 1..NumSegments : ctx.segment_header_offsets[s] = EmittedSegmentAt(s)
    /\ PlannedEnd = AtModuleOpen.size
    /\ Len(trace) = 1 => ctx.buf.size = PlannedEnd /\ ctx.buf.mem = AtModuleOpen.mem
    /\ NumFunctions > 0 =>
         FooterImports(ctx, ctx.buf, 0, FUNC_HEADERS_OFFSET(Len(ctx.module.globals))).offset
           = ctx.function_header_offsets[1]
    /\ \A i \in 1..(NumFunctions - 1) :
         ctx.function_header_offsets[i] + FUNC_HEADER_SIZE(FunctionArgCounts[i])
           = ctx.function_header_offsets[i + 1]
    /\ LET opened == AtModuleOpen
           fields == PatchedFields
       IN \A q \in 0..(opened.size - 1) :
            q \notin fields => ByteAt(ctx.buf, q) = ByteAt(opened, q)
    /\ \A k \in DOMAIN trace :
         trace[k].ev = "function_open" =>
           U32At(ctx.buf, ctx.function_header_offsets[trace[k].a + 1]
                            + FUNC_HEADER_CODE_START_OFFSET(FunctionArgCounts[trace[k].a + 1]))
             = trace[k].b
    /\ \A k \in ClosedFunctions :
         U32At(ctx.buf, ctx.function_header_offsets[trace[k].a + 1]
                          + FUNC_HEADER_CODE_END_OFFSET(FunctionArgCounts[trace[k].a + 1]))
           = trace[k].c
    /\ \A i \in 1..NumFunctions :
         ByteAt(ctx.buf, ctx.function_header_offsets[i]
                           + FUNC_HEADER_EXPORTED_OFFSET(FunctionArgCounts[i]))
           = IF i - 1 \in exported THEN 1 ELSE 0
    /\ phase = "done" =>
         /\ \A j \in 1..NumImports :
              NameFieldPointsAt(
                EmittedImportAt(j) + FUNC_HEADER_NAME_OFFSET(ImportArgCounts[j]),
                ctx.module.imports[j].func_name)
         /\ \A i \in 1..NumFunctions :
              LET field == ctx.function_header_offsets[i]
                             + FUNC_HEADER_NAME_OFFSET(FunctionArgCounts[i])
              IN IF ctx.module.functions[i].exported
                   THEN NameFieldPointsAt(field, ctx.module.functions[i].exported_name)
                   ELSE U32At(ctx.buf, field) = 0
         /\ \A s \in 1..NumSegments :
              LET at == U32At(ctx.buf, ctx.segment_header_offsets[s]
                                         + SEGMENT_HEADER_DATA_OFFSET)
                  seg == ctx.module.segments[s]
              IN /\ at >= PlannedEnd
                 /\ at + seg.size <= ctx.buf.size
                 /\ Bytes(at, at + seg.size) = SubSeq(seg.data, 1, seg.size)

\* A module of two imports, two functions, the second with an argument and
\* exported, and two segments is finished.
C21_Witness ==
  /\ phase = "done"
  /\ NumImports = 2 /\ NumFunctions = 2 /\ NumSegments = 2
  /\ exported = {1}
  /\ ctx.function_header_offsets = <<71, 95>>
  /\ ctx.segment_header_offsets = <<120, 133>>
  /\ AtModuleOpen.size = 146

====
